---- MODULE Spec2Model ----
(***************************************************************************)
(* IndexerCache (src/src/cache.rs): four entity tiers (hot_slots,          *)
(* transactions, accounts, blocks) and a metrics tier, each a              *)
(* moka::future::Cache built by CacheBuilder with a capacity, a            *)
(* time-to-live, an optional time-to-idle and an optional weigher.         *)
(*                                                                         *)
(* A tier is modelled by what the cache library keeps for it: the          *)
(* concurrent map (visible to get at once), the write log that the         *)
(* housekeeper has not applied yet, and the access-ordered deque of the    *)
(* entries the eviction policy has admitted.  entry_count and              *)
(* weighted_size are the policy's counters: they move only when the        *)
(* housekeeper applies the log (run_pending_tasks, or opportunistically    *)
(* at the end of an insert or a get).                                      *)
(*                                                                         *)
(* Time is in whole seconds.  Strings are modelled by an identifier and    *)
(* their length, byte vectors by their length and a fill byte.             *)
(*                                                                         *)
(* The manager is shared (Arc<IndexerCache>) by tasks that run side by     *)
(* side, and an async fn gives way at each .await: a call of the manager   *)
(* is one step per await, and what it holds between two awaits is kept in  *)
(* reading, writing, sweeping and reporting.  A specification lets the     *)
(* calls of several callers overlap (CanStart) or follows one caller,      *)
(* whose next call starts when the last has returned (Alone).              *)
(***************************************************************************)
EXTENDS Integers, Sequences, FiniteSets, TLC

VARIABLES
    now,        \* the clock read by the tiers and by update_cache_metrics
    tiers,      \* IndexerCache fields: tier name -> tier state
    ret,        \* what the step that has just been taken obtained: the `result` of
                \* a get_<kind> (read from the tier at its first await and returned
                \* unchanged after its second), or the report of
                \* get_performance_metrics; none if the step obtained nothing
    hist,       \* observer: per tier and key, the last put, the last read since, and
                \* whether the entry was since evicted for capacity, or invalidated
    hits,       \* observer: per tier, the number of gets that returned a record
    misses,     \* observer: per tier, the number of gets that returned None
    warm,       \* CacheWarmer::warm_recent_slots: the position of the call in flight
    reading,    \* a get_<kind> call between its tier read and its counter update
    writing,    \* a cache_<kind> call between its insert and its "cached" sample:
                \* the tier it inserted into
    sweeping,   \* a run_maintenance call in flight: how many of the five tiers
                \* it has swept so far
    reporting,  \* a get_performance_metrics call in flight: how many samples it
                \* has read so far and the sums it holds
    config,     \* the Config that IndexerCache::new was given (its config field)
    sys,        \* start_cache_system: the position of the call and its next tick
    monitor,    \* a monitoring loop of account_watcher.rs: its position and counters
    scratch     \* the managers that clear_all_caches and run_cache_maintenance
                \* constructed for themselves: how many, which function acted
                \* last, the manager of each, and the awaits done by a
                \* run_cache_maintenance in flight

\* The tiers of ret and reading stand before the records themselves: two
\* records of different tiers, whose keys are of different kinds, are told
\* apart by their tiers.
vars == <<now, ret.tier, reading.tier, tiers, ret, hist, hits, misses, warm, reading, writing,
          sweeping, reporting, config, sys, monitor, scratch>>

-----------------------------------------------------------------------------
(* Configuration: IndexerCache::new                                        *)

EntityTiers == {"hot_slots", "transactions", "accounts", "blocks"}

TierNames == EntityTiers \cup {"metrics"}

SlotsCapacity == 1000

TransactionsInitialCapacity == 10000

TransactionsCapacity == 50000000

AccountsInitialCapacity == 5000

AccountsCapacity == 100000000

BlocksInitialCapacity == 500

BlocksCapacity == 500000000

MetricsCapacity == 1000

SlotsTtl == 30

SlotsTti == 10

TransactionsTtl == 300

TransactionsTti == 60

AccountsTtl == 600

AccountsTti == 120

BlocksTtl == 3600

MetricsTtl == 60

TransactionOverhead == 200

AccountOverhead == 500

\* Mutant: the blocks tier built with a capacity of 2 GB.
max_capacity_blocks_2gb(name) ==
    CASE name = "hot_slots"    -> SlotsCapacity
      [] name = "transactions" -> TransactionsCapacity
      [] name = "accounts"     -> AccountsCapacity
      [] name = "blocks"       -> 4 * BlocksCapacity
      [] name = "metrics"      -> MetricsCapacity

\* CacheBuilder::new(n) sets max_capacity to n; a later .max_capacity(m)
\* replaces it.  The capacity bounds the total weight; without a weigher every
\* entry weighs 1.
max_capacity(name) ==
    CASE name = "hot_slots"    -> SlotsCapacity
      [] name = "transactions" -> TransactionsCapacity
      [] name = "accounts"     -> AccountsCapacity
      [] name = "blocks"       -> BlocksCapacity
      [] name = "metrics"      -> MetricsCapacity

\* Mutant: the transaction tier built with the slot tier's time-to-live.
time_to_live_transactions_as_slots(name) ==
    CASE name = "hot_slots"    -> SlotsTtl
      [] name = "transactions" -> SlotsTtl
      [] name = "accounts"     -> AccountsTtl
      [] name = "blocks"       -> BlocksTtl
      [] name = "metrics"      -> MetricsTtl

time_to_live(name) ==
    CASE name = "hot_slots"    -> SlotsTtl
      [] name = "transactions" -> TransactionsTtl
      [] name = "accounts"     -> AccountsTtl
      [] name = "blocks"       -> BlocksTtl
      [] name = "metrics"      -> MetricsTtl

\* Mutant: no tier is built with a time-to-idle.
no_time_to_idle(name) == FALSE

has_time_to_idle(name) == name \in {"hot_slots", "transactions", "accounts"}

\* Mutant: the slot tier's time-to-idle set to its time-to-live.
time_to_idle_slots_as_ttl(name) ==
    CASE name = "hot_slots"    -> SlotsTtl
      [] name = "transactions" -> TransactionsTti
      [] name = "accounts"     -> AccountsTti

time_to_idle(name) ==
    CASE name = "hot_slots"    -> SlotsTti
      [] name = "transactions" -> TransactionsTti
      [] name = "accounts"     -> AccountsTti

\* A usize is kept as its two 32-bit halves, hi * 2^32 + lo.  The inputs keep
\* lo far enough below 2^32 that adding a weigher's overhead carries nothing.
Usize(hi, lo) == [hi |-> hi, lo |-> lo]

usize_add(n, k) == [n EXCEPT !.lo = @ + k]

\* `as u32` keeps the low 32 bits.
as_u32(n) == n.lo

\* The weigher closures.
weigher(name, value) ==
    CASE name = "transactions" -> as_u32(usize_add(value.signature.len, TransactionOverhead))
      [] name = "accounts"     -> as_u32(usize_add(value.data_len, AccountOverhead))
      [] name = "blocks"       -> as_u32(value.len)
      [] OTHER                 -> 1

-----------------------------------------------------------------------------
(* One tier: the cache library's insert, get, invalidate_all and           *)
(* run_pending_tasks                                                       *)

NoneValue == [found |-> FALSE]

SomeValue(v) == [found |-> TRUE, value |-> v]

EmptyTier == [map |-> <<>>, wlog |-> <<>>, deq |-> <<>>, freq_seen |-> FALSE]

PutKey(f, k, e) == [x \in (DOMAIN f) \cup {k} |-> IF x = k THEN e ELSE f[x]]

DropKey(f, k) == [x \in (DOMAIN f) \ {k} |-> f[x]]

SeqWithout(s, k) == SelectSeq(s, LAMBDA x : x # k)

InSeq(s, k) == \E i \in 1..Len(s) : s[i] = k

MoveToBack(s, k) == IF InSeq(s, k) THEN Append(SeqWithout(s, k), k) ELSE s

\* An entry written more than time_to_live ago, or before invalidate_all.
is_expired_entry_wo(name, e, t) ==
    e.stale \/ e.last_modified + time_to_live(name) <= t

\* An entry not read or written for time_to_idle.
is_expired_entry_ao(name, e, t) ==
    e.stale \/ (has_time_to_idle(name) /\ e.last_accessed + time_to_idle(name) <= t)

is_expired(name, e, t) ==
    is_expired_entry_wo(name, e, t) \/ is_expired_entry_ao(name, e, t)

\* Mutant: an insert that keeps the entry the key already has.
tier_insert_if_absent(name, c, k, v, t) ==
    IF k \in DOMAIN c.map /\ ~is_expired(name, c.map[k], t)
    THEN c
    ELSE [c EXCEPT !.map = PutKey(@, k,
                        [value |-> v, last_modified |-> t, last_accessed |-> t,
                         counted |-> 0, stale |-> FALSE]),
                   !.deq = SeqWithout(@, k),
                   !.wlog = Append(@, [key |-> k, weight |-> weigher(name, v)])]

\* Cache::insert: the entry replaces any entry of the key in the map at once
\* and an upsert is logged for the housekeeper.
tier_insert(name, c, k, v, t) ==
    LET old == k \in DOMAIN c.map
        e == [value |-> v, last_modified |-> t, last_accessed |-> t,
              counted |-> IF old THEN c.map[k].counted ELSE 0,
              stale |-> FALSE]
    IN [c EXCEPT !.map = PutKey(@, k, e),
                 !.wlog = Append(@, [key |-> k, weight |-> weigher(name, v)])]

\* Cache::get: an entry that is absent, expired or invalidated reads as None;
\* a hit restarts the idle clock.  Both outcomes reach the frequency sketch.
tier_get_result(name, c, k, t) ==
    IF k \in DOMAIN c.map /\ ~is_expired(name, c.map[k], t)
    THEN SomeValue(c.map[k].value)
    ELSE NoneValue

\* Mutant: a get that refreshes the entry it finds in the map even when the
\* entry has expired or was invalidated.
tier_get_cache_refreshing(name, c, k, t) ==
    IF k \in DOMAIN c.map
    THEN [c EXCEPT !.map[k].last_accessed = t,
                   !.map[k].last_modified = t,
                   !.map[k].stale = FALSE,
                   !.deq = MoveToBack(@, k),
                   !.freq_seen = TRUE]
    ELSE [c EXCEPT !.freq_seen = TRUE]

tier_get_cache(name, c, k, t) ==
    IF tier_get_result(name, c, k, t).found
    THEN [c EXCEPT !.map[k].last_accessed = t,
                   !.deq = MoveToBack(@, k),
                   !.freq_seen = TRUE]
    ELSE [c EXCEPT !.freq_seen = TRUE]

\* Cache::invalidate_all: every entry written so far stops being valid; the
\* housekeeper removes them later.
tier_invalidate_all(c) ==
    [c EXCEPT !.map = [k \in DOMAIN c.map |-> [c.map[k] EXCEPT !.stale = TRUE]]]

\* The sum of the weights the policy has counted for the keys s[lo..hi].
RECURSIVE SumCounted(_, _, _, _)
SumCounted(c, s, lo, hi) ==
    IF lo > hi THEN 0
    ELSE IF lo = hi THEN c.map[s[lo]].counted
    ELSE LET mid == (lo + hi) \div 2
         IN SumCounted(c, s, lo, mid) + SumCounted(c, s, mid + 1, hi)

\* Cache::weighted_size and Cache::entry_count: the policy's counters.
weighted_size(c) == SumCounted(c, c.deq, 1, Len(c.deq))

entry_count(c) == Len(c.deq)

RemoveEntry(c, k) ==
    [c EXCEPT !.map = DropKey(@, k), !.deq = SeqWithout(@, k)]

Admit(c, k, w) ==
    [c EXCEPT !.map[k].counted = w, !.deq = Append(SeqWithout(@, k), k)]

\* The number of entries at the cold end of the deque whose weight adds up to
\* the candidate's, or -1 when all of them together weigh less.
VictimCount(c, w) ==
    LET enough == {n \in 0..Len(c.deq) : SumCounted(c, c.deq, 1, n) >= w}
    IN IF enough = {} THEN -1
       ELSE CHOOSE n \in enough : \A m \in enough : n <= m

RECURSIVE RemoveAll(_, _)
RemoveAll(c, s) ==
    IF s = <<>> THEN c ELSE RemoveAll(RemoveEntry(c, Head(s)), Tail(s))

\* Mutant: an update of a key that is already counted adds the new weight to
\* the weight counted for it.
handle_upsert_adding_weight(name, c, op, rest) ==
    LET k == op.key
        w == op.weight
        latest == \A i \in 1..Len(rest) : rest[i].key # k
        rejected == IF latest THEN RemoveEntry(c, k) ELSE c
    IN IF k \notin DOMAIN c.map THEN {c}
       ELSE IF InSeq(c.deq, k) THEN {Admit(c, k, c.map[k].counted + w)}
       ELSE IF weighted_size(c) + w <= max_capacity(name) THEN {Admit(c, k, w)}
       ELSE {rejected}

\* The housekeeper applies one logged upsert.  An admitted entry is an update.
\* A new entry is admitted when it fits; rejected when it alone exceeds the
\* capacity; otherwise it competes with the least recently used entries: it
\* replaces them only if the frequency sketch ranks it above them, which
\* takes at least one recorded read.  The sketch is approximate, so both
\* outcomes are possible once it holds reads.
handle_upsert(name, c, op, rest) ==
    LET k == op.key
        w == op.weight
        latest == \A i \in 1..Len(rest) : rest[i].key # k
        rejected == IF latest THEN RemoveEntry(c, k) ELSE c
        n == VictimCount(c, w)
    IN IF k \notin DOMAIN c.map THEN {c}
       ELSE IF InSeq(c.deq, k) THEN {Admit(c, k, w)}
       ELSE IF weighted_size(c) + w <= max_capacity(name) THEN {Admit(c, k, w)}
       ELSE IF w > max_capacity(name) THEN {rejected}
       ELSE {rejected} \cup
            (IF c.freq_seen /\ n >= 0
             THEN {Admit(RemoveAll(c, SubSeq(c.deq, 1, n)), k, w)}
             ELSE {})

RECURSIVE apply_writes(_, _, _)
apply_writes(name, c, log) ==
    IF log = <<>> THEN {c}
    ELSE UNION {apply_writes(name, c2, Tail(log)) :
                    c2 \in handle_upsert(name, c, Head(log), Tail(log))}

\* The housekeeper removes the entries that have expired or were invalidated.
evict_expired_entries(name, c, t) ==
    LET dead == {k \in DOMAIN c.map : is_expired(name, c.map[k], t)}
    IN [c EXCEPT !.map = [k \in (DOMAIN c.map) \ dead |-> c.map[k]],
                 !.deq = SelectSeq(@, LAMBDA k : k \notin dead)]

\* Mutant: the housekeeper evicts the least recently used entry whether or not
\* the tier is over its capacity.
evict_lru_entries_within_capacity(name, c) ==
    IF c.deq # <<>> THEN RemoveEntry(c, Head(c.deq)) ELSE c

RECURSIVE evict_lru_entries(_, _)
evict_lru_entries(name, c) ==
    IF weighted_size(c) > max_capacity(name) /\ c.deq # <<>>
    THEN evict_lru_entries(name, RemoveEntry(c, Head(c.deq)))
    ELSE c

\* Cache::run_pending_tasks: apply the write log, drop what has expired or
\* was invalidated, then evict least recently used entries while the
\* weighted size exceeds the capacity.  The set of possible outcomes.
run_pending_tasks(name, c, t) ==
    {evict_lru_entries(name,
        evict_expired_entries(name, [c2 EXCEPT !.wlog = <<>>], t)) :
            c2 \in apply_writes(name, c, c.wlog)}

MaxLog == 2

\* The housekeeper may or may not run at the end of an insert or a get; it
\* does run once the write log has filled up.
maybe_housekeeping(name, c, t, hk) ==
    IF hk \/ Len(c.wlog) >= MaxLog THEN run_pending_tasks(name, c, t) ELSE {c}

-----------------------------------------------------------------------------
(* Observers: what a caller of the manager has seen                        *)

Live(name, c, k, t) == k \in DOMAIN c.map /\ ~is_expired(name, c.map[k], t)

\* A key whose entry could be read before the housekeeper ran and cannot be
\* read after it, with no time passing, was evicted for capacity.
MarkEvicted(h, name, before, after, t) ==
    [k \in DOMAIN h |->
        [h[k] EXCEPT !.evicted = @ \/ (Live(name, before, k, t) /\ ~Live(name, after, k, t))]]

MarkInvalidated(h) == [k \in DOMAIN h |-> [h[k] EXCEPT !.invalidated = TRUE]]

Lost(h) == h.evicted \/ h.invalidated

NoReturn == [tier |-> "none", key |-> "none", result |-> NoneValue]

TotalGets == LET S(n) == hits[n] + misses[n]
             IN S("hot_slots") + S("transactions") + S("accounts") + S("blocks")

MaxGets == 4

\* The scenarios whose calls interleave, or that run beside other loops, make
\* one get fewer.
FewGets == TotalGets < MaxGets - 1

-----------------------------------------------------------------------------
(* IndexerCache                                                            *)

StoredMetric(name) ==
    CASE name = "hot_slots"    -> "slots_cached"
      [] name = "transactions" -> "transactions_cached"
      [] name = "accounts"     -> "accounts_cached"
      [] name = "blocks"       -> "blocks_cached"

HitMetric(name) ==
    CASE name = "hot_slots"    -> "slot_cache_hits"
      [] name = "transactions" -> "tx_cache_hits"
      [] name = "accounts"     -> "account_cache_hits"
      [] name = "blocks"       -> "block_cache_hits"

MissMetric(name) ==
    CASE name = "hot_slots"    -> "slot_cache_misses"
      [] name = "transactions" -> "tx_cache_misses"
      [] name = "accounts"     -> "account_cache_misses"
      [] name = "blocks"       -> "block_cache_misses"

\* update_cache_metrics(key, value): the sample {value, timestamp} is inserted
\* under the key, replacing the sample that was there.
update_cache_metrics(m, key, value, t, hk) ==
    maybe_housekeeping("metrics",
        tier_insert("metrics", m, key, [value |-> value, timestamp |-> t], t), t, hk)

\* No cache_<kind> call is between its two awaits.
NotWriting == "none"

\* No get_performance_metrics call is in flight.
NotReporting == [at |-> 0, hits |-> 0, misses |-> 0, absent |-> TRUE]

\* The number of calls of the manager's callers that are between two awaits.
InFlight ==
    (IF writing # NotWriting THEN 1 ELSE 0) + (IF reading.tier # NoReturn.tier THEN 1 ELSE 0)
    + (IF sweeping # 0 THEN 1 ELSE 0) + (IF reporting.at # 0 THEN 1 ELSE 0)

\* At most this many calls overlap.
MaxInFlight == 2

\* Another caller may start a call.
CanStart == InFlight < MaxInFlight

\* The one caller of the manager is between two calls.
Alone == InFlight = 0

\* Mutant: blocks are kept in the slot tier's storage, under the same u64 key.
cache_entity_blocks_in_slot_tier(name, k, v, hk) ==
    LET tier == IF name = "blocks" THEN "hot_slots" ELSE name
        c1 == tier_insert(tier, tiers[tier], k, v, now)
        h1 == PutKey(hist[name], k,
                     [put_at |-> now, value |-> v, read_at |-> -1,
                      evicted |-> FALSE, invalidated |-> FALSE])
    IN /\ writing = NotWriting
       /\ \E c2 \in maybe_housekeeping(tier, c1, now, hk) :
            /\ tiers' = [tiers EXCEPT ![tier] = c2]
            /\ hist' = [hist EXCEPT ![name] = h1]
       /\ writing' = name
       /\ ret' = NoReturn
       /\ UNCHANGED <<now, hits, misses>>

\* cache_slot / cache_transaction / cache_account / cache_block up to the end
\* of `self.<tier>.insert(key, value).await`: the record is in the kind's
\* tier and the "<kind>_cached" sample is not written yet.  hk says whether
\* the tier's housekeeper ran at the end of the insert.
cache_entity_insert(name, k, v, hk) ==
    LET c1 == tier_insert(name, tiers[name], k, v, now)
        h1 == PutKey(hist[name], k,
                     [put_at |-> now, value |-> v, read_at |-> -1,
                      evicted |-> FALSE, invalidated |-> FALSE])
    IN /\ writing = NotWriting
       /\ \E c2 \in maybe_housekeeping(name, c1, now, hk) :
            /\ tiers' = [tiers EXCEPT ![name] = c2]
            /\ hist' = [hist EXCEPT ![name] = MarkEvicted(h1, name, c1, c2, now)]
       /\ writing' = name
       /\ ret' = NoReturn
       /\ UNCHANGED <<now, hits, misses>>

\* The rest of the cache_<kind> call: update_cache_metrics with the
\* "<kind>_cached" key, then Ok(()).  mhk says whether the metrics tier's
\* housekeeper ran at the end of that insert.
cache_entity_record(mhk) ==
    /\ writing # NotWriting
    /\ \E m2 \in update_cache_metrics(tiers["metrics"], StoredMetric(writing), 1, now, mhk) :
            tiers' = [tiers EXCEPT !["metrics"] = m2]
    /\ writing' = NotWriting
    /\ ret' = NoReturn
    /\ UNCHANGED <<now, hist, hits, misses>>

cache_slot_insert(slot_info, hk) ==
    /\ cache_entity_insert("hot_slots", slot_info.slot, slot_info, hk)
    /\ UNCHANGED <<warm, reading, sweeping, reporting, config, sys, monitor, scratch>>

cache_transaction_insert(tx, hk) ==
    /\ cache_entity_insert("transactions", tx.signature, tx, hk)
    /\ UNCHANGED <<warm, reading, sweeping, reporting, config, sys, monitor, scratch>>

cache_account_insert(account, hk) ==
    /\ cache_entity_insert("accounts", account.pubkey, account, hk)
    /\ UNCHANGED <<warm, reading, sweeping, reporting, config, sys, monitor, scratch>>

cache_block_insert(slot, block_data, hk) ==
    /\ cache_entity_insert("blocks", slot, block_data, hk)
    /\ UNCHANGED <<warm, reading, sweeping, reporting, config, sys, monitor, scratch>>

\* The second await of a cache_<kind> call made by a caller of the manager.
cache_record(mhk) ==
    /\ cache_entity_record(mhk)
    /\ UNCHANGED <<warm, reading, sweeping, reporting, config, sys, monitor, scratch>>

\* get_slot / get_transaction / get_account / get_block up to the end of
\* `self.<tier>.get(&key).await`: the tier was read and the outcome is held by
\* the call; the "hits" or "misses" sample is not written yet.
get_entity_read(name, k, hk) ==
    LET c0 == tiers[name]
        r == tier_get_result(name, c0, k, now)
        c1 == tier_get_cache(name, c0, k, now)
        h1 == IF r.found /\ k \in DOMAIN hist[name]
              THEN [hist[name] EXCEPT ![k].read_at = now]
              ELSE hist[name]
    IN /\ reading.tier = NoReturn.tier
       /\ TotalGets < MaxGets
       /\ \E c2 \in maybe_housekeeping(name, c1, now, hk) :
            /\ tiers' = [tiers EXCEPT ![name] = c2]
            /\ hist' = [hist EXCEPT ![name] = MarkEvicted(h1, name, c1, c2, now)]
       /\ reading' = [tier |-> name, key |-> k, result |-> r]
       /\ ret' = [tier |-> name, key |-> k, result |-> r]
       /\ hits' = IF r.found THEN [hits EXCEPT ![name] = @ + 1] ELSE hits
       /\ misses' = IF r.found THEN misses ELSE [misses EXCEPT ![name] = @ + 1]
       /\ UNCHANGED now

\* The rest of the get: update_cache_metrics with the "hits" or the "misses"
\* key, then the outcome is returned.
get_entity_record(mhk) ==
    /\ reading.tier # NoReturn.tier
    /\ \E m2 \in update_cache_metrics(tiers["metrics"],
                    IF reading.result.found THEN HitMetric(reading.tier)
                    ELSE MissMetric(reading.tier),
                    1, now, mhk) :
            tiers' = [tiers EXCEPT !["metrics"] = m2]
    /\ ret' = NoReturn
    /\ reading' = NoReturn
    /\ UNCHANGED <<now, hist, hits, misses>>

get_slot_read(slot, hk) ==
    /\ get_entity_read("hot_slots", slot, hk)
    /\ UNCHANGED <<warm, writing, sweeping, reporting, config, sys, monitor, scratch>>

get_transaction_read(signature, hk) ==
    /\ get_entity_read("transactions", signature, hk)
    /\ UNCHANGED <<warm, writing, sweeping, reporting, config, sys, monitor, scratch>>

get_account_read(pubkey, hk) ==
    /\ get_entity_read("accounts", pubkey, hk)
    /\ UNCHANGED <<warm, writing, sweeping, reporting, config, sys, monitor, scratch>>

get_block_read(slot, hk) ==
    /\ get_entity_read("blocks", slot, hk)
    /\ UNCHANGED <<warm, writing, sweeping, reporting, config, sys, monitor, scratch>>

\* The second await of a get_<kind> call made by a caller of the manager.
get_record(mhk) ==
    /\ get_entity_record(mhk)
    /\ UNCHANGED <<warm, writing, sweeping, reporting, config, sys, monitor, scratch>>

\* The order in which run_maintenance sweeps the tiers.
MaintenanceOrder == <<"hot_slots", "transactions", "accounts", "blocks", "metrics">>

\* One `self.<tier>.run_pending_tasks().await` of run_maintenance: the next
\* tier in the order is swept; after the fifth the call returns.
run_maintenance_await ==
    LET name == MaintenanceOrder[sweeping + 1]
    IN /\ \E after \in run_pending_tasks(name, tiers[name], now) :
            /\ tiers' = [tiers EXCEPT ![name] = after]
            /\ hist' = IF name \in EntityTiers
                       THEN [hist EXCEPT ![name] =
                                MarkEvicted(hist[name], name, tiers[name], after, now)]
                       ELSE hist
       /\ sweeping' = (sweeping + 1) % Len(MaintenanceOrder)
       /\ ret' = NoReturn

run_maintenance ==
    /\ run_maintenance_await
    /\ UNCHANGED <<now, hits, misses, warm, reading, writing, reporting, config, sys, monitor, scratch>>

\* Mutant: invalidate_all that leaves the metrics tier out.
invalidate_all_but_metrics ==
    /\ tiers' = [n \in TierNames |->
                    IF n = "metrics" THEN tiers[n] ELSE tier_invalidate_all(tiers[n])]
    /\ hist' = [n \in EntityTiers |-> MarkInvalidated(hist[n])]
    /\ ret' = NoReturn
    /\ UNCHANGED <<now, hits, misses, warm, reading, writing, sweeping, reporting, config, sys, monitor, scratch>>

\* Mutant: invalidate_all that leaves the blocks tier out.
invalidate_all_but_blocks ==
    /\ tiers' = [n \in TierNames |->
                    IF n = "blocks" THEN tiers[n] ELSE tier_invalidate_all(tiers[n])]
    /\ hist' = [n \in EntityTiers |-> MarkInvalidated(hist[n])]
    /\ ret' = NoReturn
    /\ UNCHANGED <<now, hits, misses, warm, reading, writing, sweeping, reporting, config, sys, monitor, scratch>>

\* invalidate_all: invalidate_all on the five tiers.
invalidate_all ==
    /\ tiers' = [n \in TierNames |-> tier_invalidate_all(tiers[n])]
    /\ hist' = [n \in EntityTiers |-> MarkInvalidated(hist[n])]
    /\ ret' = NoReturn
    /\ UNCHANGED <<now, hits, misses, warm, reading, writing, sweeping, reporting, config, sys, monitor, scratch>>

\* serde_json::Value, of which get_cache_stats builds Numbers and Objects;
\* Null is what indexing gives where there is nothing to give.
JsonNumber(n) == [json |-> "Number", number |-> n]

JsonObject(map) == [json |-> "Object", map |-> map]

JsonNull == [json |-> "Null"]

\* value[key] with a string key: the member of an Object that has the key,
\* Null for an Object without it and for every value that is not an Object.
json_index(v, key) ==
    IF v.json = "Object" /\ key \in DOMAIN v.map THEN v.map[key] ELSE JsonNull

\* value.as_u64().unwrap_or(0): the number of a Number, which is a u64 in
\* every value get_cache_stats builds, and 0 for anything else.
as_u64_or_zero(v) == IF v.json = "Number" THEN v.number ELSE 0

\* get_cache_stats: the policy counters of the four entity tiers, by tier.
get_cache_stats(ts) ==
    LET stats(c) == JsonObject([entry_count |-> JsonNumber(entry_count(c)),
                                weighted_size |-> JsonNumber(weighted_size(c))])
    IN JsonObject(
        [hot_slots |-> stats(ts["hot_slots"]),
         transactions |-> stats(ts["transactions"]),
         accounts |-> stats(ts["accounts"]),
         blocks |-> stats(ts["blocks"]),
         total_memory_usage_mb |->
            JsonNumber((weighted_size(ts["hot_slots"]) + weighted_size(ts["transactions"])
                        + weighted_size(ts["accounts"]) + weighted_size(ts["blocks"]))
                       \div 1000000)])

\* get_metric_value(key).unwrap_or(0.0)
get_metric_value(m, key, t) ==
    LET r == tier_get_result("metrics", m, key, t)
    IN IF r.found THEN r.value.value ELSE 0

\* Mutant: the quotient taken without the guard on an empty sum.
calculate_hit_ratio_unguarded(h, ms) == [num |-> h, den |-> h + ms]

\* calculate_hit_ratio, after its eight reads: the sum of the four "hits"
\* samples over the sum of the "hits" and "misses" samples, 0.0 when that sum
\* is not positive.  The f64 quotient is kept as the fraction num/den.
calculate_hit_ratio(h, ms) ==
    IF h + ms > 0 THEN [num |-> h, den |-> h + ms] ELSE [num |-> 0, den |-> 1]

\* The metric keys get_performance_metrics reads, in the order it reads them:
\* calculate_hit_ratio, then calculate_avg_response_time.
PerformanceKeys ==
    <<"slot_cache_hits", "tx_cache_hits", "account_cache_hits", "block_cache_hits",
      "slot_cache_misses", "tx_cache_misses", "account_cache_misses",
      "block_cache_misses",
      "slot_avg_response_time_us", "tx_avg_response_time_us",
      "account_avg_response_time_us", "block_avg_response_time_us">>

\* No hit, miss or stored sample can be read from the metrics tier.
MetricsAbsent(m, t) ==
    \A name \in EntityTiers :
        \A key \in {StoredMetric(name), HitMetric(name), MissMetric(name)} :
            ~tier_get_result("metrics", m, key, t).found

\* One `self.get_metric_value(key).await` of get_performance_metrics: the next
\* sample in the order is read and added to the sum it belongs to; after the
\* last one the report is returned, of which performance.cache_hit_ratio is
\* kept.  mhk says whether the metrics tier's housekeeper ran at the end of
\* the read.  The call also notes whether no sample could be read from the
\* tier at any of the reads it has made.
get_performance_metrics(mhk) ==
    LET at == reporting.at + 1
        key == PerformanceKeys[at]
        m0 == tiers["metrics"]
        v == get_metric_value(m0, key, now)
        m1 == tier_get_cache("metrics", m0, key, now)
        h == IF at <= 4 THEN reporting.hits + v ELSE reporting.hits
        ms == IF at > 4 /\ at <= 8 THEN reporting.misses + v ELSE reporting.misses
    IN /\ \E m2 \in maybe_housekeeping("metrics", m1, now, mhk) :
            tiers' = [tiers EXCEPT !["metrics"] = m2]
       /\ reporting' = IF at = Len(PerformanceKeys) THEN NotReporting
                       ELSE [at |-> at, hits |-> h, misses |-> ms,
                             absent |-> reporting.absent /\ MetricsAbsent(m0, now)]
       /\ ret' = IF at = Len(PerformanceKeys)
                 THEN [tier |-> "performance", key |-> "cache_hit_ratio",
                       result |-> SomeValue(calculate_hit_ratio(h, ms))]
                 ELSE NoReturn
       /\ UNCHANGED <<now, hist, hits, misses, warm, reading, writing, sweeping, config, sys, monitor, scratch>>

\* The passage of time between two calls.
Tick(d) ==
    /\ d > 0
    /\ now' = now + d
    /\ ret' = NoReturn
    /\ UNCHANGED <<tiers, hist, hits, misses, warm, reading, writing, sweeping, reporting, config, sys, monitor, scratch>>

\* No warm_recent_slots call was made yet.
WarmIdle ==
    [pc |-> "idle", current |-> 0, slot |-> 0, attempted |-> <<>>, outcomes |-> <<>>,
     result |-> "none", reported |-> 0, runs |-> 0]

\* Config::from_env with nothing set: CacheConfig::default() and cache_size.
DefaultConfig ==
    [cache_size |-> 1000,
     cache_config |->
        [total_size_mb |-> 1000,
         l1_max_entries |-> 1000, l1_ttl_seconds |-> 30, l1_idle_seconds |-> 10,
         l2_max_entries |-> 10000, l2_ttl_seconds |-> 300, l2_idle_seconds |-> 60,
         l2_max_size_mb |-> 50,
         l3_max_entries |-> 5000, l3_ttl_seconds |-> 600, l3_idle_seconds |-> 120,
         l3_max_size_mb |-> 100,
         l4_max_entries |-> 500, l4_ttl_seconds |-> 3600, l4_max_size_mb |-> 500,
         warm_recent_slots |-> 100, maintenance_interval_seconds |-> 30]]

\* start_cache_system was not called.
SysIdle == [pc |-> "idle", warm |-> FALSE, next_tick |-> 0, beat |-> 0, looped |-> FALSE]

\* No monitoring loop runs.
MonitorIdle ==
    [pc |-> "idle", balance_every |-> 0, order |-> <<>>, iteration_count |-> 0, at |-> 0,
     cache_hits |-> 0, cache_misses |-> 0,
     calls |-> 0, fetches |-> 0, fetched |-> 0, cached |-> 0,
     dashboards |-> 0, total_cache_entries |-> 0, cache_memory_mb |-> 0]

\* Neither clear_all_caches nor run_cache_maintenance was called.
NoInstance ==
    [made |-> 0, op |-> "none", cleared |-> [n \in TierNames |-> EmptyTier],
     swept |-> [n \in TierNames |-> EmptyTier], sweeping |-> 0]

\* IndexerCache::new(cfg): the five tiers, empty, and the config field.
new(cfg) ==
    /\ now = 0
    /\ tiers = [n \in TierNames |-> EmptyTier]
    /\ ret = NoReturn
    /\ hist = [n \in EntityTiers |-> <<>>]
    /\ hits = [n \in EntityTiers |-> 0]
    /\ misses = [n \in EntityTiers |-> 0]
    /\ warm = WarmIdle
    /\ reading = NoReturn
    /\ writing = NotWriting
    /\ sweeping = 0
    /\ reporting = NotReporting
    /\ config = cfg
    /\ sys = SysIdle
    /\ monitor = MonitorIdle
    /\ scratch = NoInstance

Init == new(DefaultConfig)

-----------------------------------------------------------------------------
(* Inputs                                                                  *)

Signature(id, n) == [id |-> id, len |-> Usize(0, n)]

SlotInfo(slot, leader, t) == [slot |-> slot, leader |-> leader, cached_at |-> t]

Transaction(sig, amount, t) == [signature |-> sig, amount |-> amount, cached_at |-> t]

Account(pubkey, lamports, n, t) ==
    [pubkey |-> pubkey, lamports |-> lamports, data_len |-> Usize(0, n), cached_at |-> t]

Bytes(n, fill) == [len |-> Usize(0, n), fill |-> fill]

SignatureLen == 88

TokenAccountLen == 165

SmallBlockLen == 1000

\* The other tiers were never written or read: the callers of this run work
\* on one kind.
Untouched(n) ==
    tiers[n] = EmptyTier /\ hist[n] = <<>> /\ hits[n] = 0 /\ misses[n] = 0

OnlyKind(name) == \A n \in EntityTiers \ {name} : Untouched(n)

\* The instants at which an entry of the tier reaches, or is one second short
\* of, its time-to-live or time-to-idle deadline.
Deadlines(name) ==
    LET c == tiers[name]
        wo == {c.map[k].last_modified + time_to_live(name) : k \in DOMAIN c.map}
        ao == IF has_time_to_idle(name)
              THEN {c.map[k].last_accessed + time_to_idle(name) : k \in DOMAIN c.map}
              ELSE {}
    IN {t \in (wo \cup ao \cup {x - 1 : x \in wo \cup ao}) : t > now}

MaxOvershoot == 10

-----------------------------------------------------------------------------
(* CacheWarmer                                                             *)

saturating_sub(a, b) == IF a > b THEN a - b ELSE 0

\* current_slot.saturating_sub(100)
WarmWindow == 100

\* The number in the closing log line, "Warmed 100 slots in cache".
WarmedReported == 100

\* What the RPC client answers: Err, or Ok with the value.
RpcErr == [ok |-> FALSE]

RpcOk(v) == [ok |-> TRUE, value |-> v]

FetchOutcome(leaders) ==
    IF ~leaders.ok THEN "err" ELSE IF leaders.value = <<>> THEN "empty" ELSE "leader"

MaxWarmRuns == 2

\* warm_recent_slots up to the head of the loop: client.get_slot()?, then
\* the range start_slot..=current_slot.
warm_recent_slots_call(current_slot) ==
    /\ warm.pc \in {"idle", "done"}
    /\ warm.runs < MaxWarmRuns
    /\ warm' = IF current_slot.ok
               THEN [pc |-> "loop", current |-> current_slot.value,
                     slot |-> saturating_sub(current_slot.value, WarmWindow),
                     attempted |-> <<>>, outcomes |-> <<>>,
                     result |-> "none", reported |-> 0, runs |-> warm.runs + 1]
               ELSE [pc |-> "done", current |-> 0, slot |-> 0,
                     attempted |-> <<>>, outcomes |-> <<>>,
                     result |-> "Err", reported |-> 0, runs |-> warm.runs + 1]
    /\ UNCHANGED <<now, tiers, ret, hist, hits, misses, reading, writing, sweeping, reporting, config, sys, monitor, scratch>>

\* Mutant: the fetch written with `?`, so that a failed fetch returns the error.
warm_after_fetch_propagating(w, leaders) ==
    IF leaders.ok
    THEN [w EXCEPT !.slot = @ + 1,
                   !.attempted = Append(@, w.slot),
                   !.outcomes = Append(@, FetchOutcome(leaders))]
    ELSE [w EXCEPT !.pc = "done", !.result = "Err",
                   !.attempted = Append(@, w.slot),
                   !.outcomes = Append(@, FetchOutcome(leaders))]

\* Mutant: a failed fetch leaves the loop.
warm_after_fetch_breaking(w, leaders) ==
    [w EXCEPT !.slot = IF leaders.ok THEN @ + 1 ELSE w.current + 1,
              !.attempted = Append(@, w.slot),
              !.outcomes = Append(@, FetchOutcome(leaders))]

\* One iteration of the loop, seen from the call: the slot was attempted with
\* the outcome of its fetch, and the loop moves to the next slot.
warm_after_fetch(w, leaders) ==
    [w EXCEPT !.slot = @ + 1,
              !.attempted = Append(@, w.slot),
              !.outcomes = Append(@, FetchOutcome(leaders))]

\* One iteration of the loop: client.get_slot_leaders(slot, 1); if it is Ok
\* and has a first leader, the record is built and cache_slot is called, of
\* which this is the part up to the end of its insert.
warm_recent_slots_fetch(leaders) ==
    /\ warm.pc = "loop"
    /\ warm.slot <= warm.current
    /\ writing = NotWriting
    /\ warm' = warm_after_fetch(warm, leaders)
    /\ IF FetchOutcome(leaders) = "leader"
       THEN cache_entity_insert("hot_slots", warm.slot,
                                SlotInfo(warm.slot, Head(leaders.value), now), FALSE)
       ELSE UNCHANGED <<now, tiers, ret, hist, hits, misses, writing>>
    /\ UNCHANGED <<reading, sweeping, reporting, config, sys, monitor, scratch>>

\* The rest of the warmer's cache_slot call; its result is Ok.
warm_recent_slots_cached ==
    /\ warm.pc = "loop"
    /\ cache_entity_record(TRUE)
    /\ UNCHANGED <<warm, reading, sweeping, reporting, config, sys, monitor, scratch>>

\* The end of the loop: the closing log line and Ok(()).
warm_recent_slots_return ==
    /\ warm.pc = "loop"
    /\ warm.slot > warm.current
    /\ writing = NotWriting
    /\ warm' = [warm EXCEPT !.pc = "done", !.result = "Ok", !.reported = WarmedReported]
    /\ UNCHANGED <<now, tiers, ret, hist, hits, misses, reading, writing, sweeping, reporting, config, sys, monitor, scratch>>

-----------------------------------------------------------------------------
(* SpecWarm: warm_recent_slots is called on a chain shorter and on a chain *)
(* longer than the warming window; the fetches of the first and of the     *)
(* last slot of the range may fail or name no leader                       *)

ShortChainSlot == 3

LongChainSlot == 150

FaultySlots == {saturating_sub(warm.current, WarmWindow), warm.current}

LeaderAnswers ==
    IF warm.slot \in FaultySlots
    THEN {RpcErr, RpcOk(<<>>), RpcOk(<<"L1">>)}
    ELSE {RpcOk(<<"L1">>)}

NextWarm ==
    \/ \E current_slot \in {RpcErr, RpcOk(ShortChainSlot), RpcOk(LongChainSlot)} :
            warm_recent_slots_call(current_slot)
    \/ \E leaders \in LeaderAnswers : warm_recent_slots_fetch(leaders)
    \/ warm_recent_slots_cached
    \/ warm_recent_slots_return
    \/ (warm.pc = "done" \/ sweeping # 0) /\ run_maintenance

SpecWarm == Init /\ [][NextWarm]_vars

-----------------------------------------------------------------------------
(* SpecAsync: one caller's get_slot is followed through its two awaits     *)
(* while other callers cache and read the slot and take the report         *)

NextAsync ==
    \/ CanStart /\ cache_slot_insert(SlotInfo(100, "L1", now), FALSE)
    \/ cache_record(TRUE)
    \/ CanStart /\ get_slot_read(100, FALSE)
    \/ \E mhk \in BOOLEAN : get_record(mhk)
    \/ (reporting.at # 0 \/ CanStart) /\ (\E mhk \in BOOLEAN : get_performance_metrics(mhk))
    \/ (sweeping # 0 \/ CanStart) /\ run_maintenance

SpecAsync == Init /\ [][NextAsync]_vars

-----------------------------------------------------------------------------
(* start_cache_system                                                      *)

\* tokio::time::interval(Duration::from_secs(30))
MaintenanceInterval == 30

\* The clock of the model stops here; what start_cache_system does later is
\* seen at this instant.
MaxSysTime == 60

\* The loop is entered: the interval is created, its first tick is due at once.
EnterLoop(s) == [s EXCEPT !.pc = "loop", !.next_tick = now, !.looped = TRUE]

\* start_cache_system up to the warming: the size is written into the
\* configuration's cache_size and the manager is constructed from it.
start_cache_system_call(warm_requested, size_mb) ==
    /\ sys.pc = "idle"
    /\ \A n \in TierNames : tiers[n] = EmptyTier
    /\ config' = [config EXCEPT !.cache_size = size_mb * 1000000]
    /\ sys' = IF warm_requested
              THEN [sys EXCEPT !.pc = "warming", !.warm = TRUE]
              ELSE EnterLoop(sys)
    /\ UNCHANGED <<now, tiers, ret, hist, hits, misses, warm, reading, writing, sweeping, reporting, monitor, scratch>>

\* warmer.warm_recent_slots(client).await?: an error is returned to the
\* caller, otherwise the loop is entered.
start_cache_system_warmed ==
    /\ sys.pc = "warming"
    /\ warm.pc = "done"
    /\ sys' = IF warm.result = "Ok" THEN EnterLoop(sys) ELSE [sys EXCEPT !.pc = "failed"]
    /\ UNCHANGED <<now, tiers, ret, hist, hits, misses, warm, reading, writing, sweeping, reporting, config, monitor, scratch>>

\* Mutant: the loop is left after its first round.
start_cache_system_tick_once ==
    /\ sys.pc = "loop"
    /\ sweeping # 0 \/ now >= sys.next_tick
    /\ run_maintenance_await
    /\ sys' = IF sweeping' = 0
              THEN [sys EXCEPT !.pc = "stopped", !.beat = 1 - @]
              ELSE sys
    /\ UNCHANGED <<now, hits, misses, warm, reading, writing, reporting, config, monitor, scratch>>

\* One await of a round of the loop: interval.tick().await with the first
\* run_pending_tasks of cache.run_maintenance(), or one of the next four; the
\* round ends after the fifth, with the statistics for the debug log.  The
\* next tick is one interval after this one's due time, as long as the
\* model's clock reaches it.
start_cache_system_tick ==
    /\ sys.pc = "loop"
    /\ sweeping # 0 \/ now >= sys.next_tick
    /\ run_maintenance_await
    /\ sys' = IF sweeping' = 0
              THEN [sys EXCEPT !.beat = 1 - @,
                               !.next_tick = IF @ + MaintenanceInterval <= MaxSysTime
                                             THEN @ + MaintenanceInterval ELSE @]
              ELSE sys
    /\ UNCHANGED <<now, hits, misses, warm, reading, writing, reporting, config, monitor, scratch>>

\* The instants at which a slot of the tier expires.
SlotExpiries ==
    LET c == tiers["hot_slots"]
    IN {c.map[k].last_modified + time_to_live("hot_slots") : k \in DOMAIN c.map}
       \cup {c.map[k].last_accessed + time_to_idle("hot_slots") : k \in DOMAIN c.map}

\* Time passes to the next tick of the loop or to the expiry of a slot.
AdvanceClock ==
    \E t \in SlotExpiries \cup (IF sys.pc = "loop" THEN {sys.next_tick} ELSE {}) :
        /\ t > now
        /\ t <= MaxSysTime
        /\ (sys.pc = "loop" /\ now < sys.next_tick) => t <= sys.next_tick
        /\ Tick(t - now)

-----------------------------------------------------------------------------
(* SpecSystem: start_cache_system with and without warming, on a short     *)
(* chain, while time passes; the loop's rounds and the clock are fair      *)

DefaultSizeMb == 1000

NextSystem ==
    \/ \E warm_requested \in BOOLEAN : start_cache_system_call(warm_requested, DefaultSizeMb)
    \/ /\ sys.pc = "warming"
       /\ warm.pc = "idle"
       /\ \E current_slot \in {RpcErr, RpcOk(ShortChainSlot)} :
                warm_recent_slots_call(current_slot)
    \/ \E leaders \in LeaderAnswers : warm_recent_slots_fetch(leaders)
    \/ warm_recent_slots_cached
    \/ warm_recent_slots_return
    \/ start_cache_system_warmed
    \/ start_cache_system_tick
    \/ AdvanceClock

SpecSystem ==
    /\ Init
    /\ [][NextSystem]_vars
    /\ WF_vars(start_cache_system_tick)
    /\ WF_vars(AdvanceClock)

-----------------------------------------------------------------------------
(* run_cache_maintenance and clear_all_caches                              *)

MaxInstances == 2

\* Mutant: clear_all_caches that invalidates the running manager.
clear_all_caches_of_running_manager ==
    /\ scratch.made < MaxInstances
    /\ scratch' = [scratch EXCEPT !.made = @ + 1, !.op = "clear",
                                  !.cleared = [n \in TierNames |-> EmptyTier]]
    /\ tiers' = [n \in TierNames |-> tier_invalidate_all(tiers[n])]
    /\ hist' = [n \in EntityTiers |-> MarkInvalidated(hist[n])]
    /\ ret' = NoReturn
    /\ UNCHANGED <<now, hits, misses, warm, reading, writing, sweeping, reporting, config, sys, monitor>>

\* clear_all_caches: IndexerCache::new(config.clone()) and invalidate_all on
\* the manager just constructed, which is dropped at the return.  The call
\* has no await that suspends it.
clear_all_caches ==
    /\ scratch.made < MaxInstances
    /\ scratch' = [scratch EXCEPT !.made = @ + 1, !.op = "clear",
                                  !.cleared = [n \in TierNames |-> tier_invalidate_all(EmptyTier)]]
    /\ UNCHANGED <<now, tiers, ret, hist, hits, misses, warm, reading, writing, sweeping, reporting, config, sys, monitor>>

\* One `self.<tier>.run_pending_tasks().await` of the run_maintenance that
\* run_cache_maintenance calls on its manager: the next tier in the order is
\* swept; after the fifth the call returns and the manager is dropped.
run_cache_maintenance_sweep(made, swept, at) ==
    LET name == MaintenanceOrder[at + 1]
    IN /\ \E after \in run_pending_tasks(name, swept[name], now) :
            scratch' = [scratch EXCEPT !.made = made, !.op = "maintenance",
                                      !.swept = [swept EXCEPT ![name] = after],
                                      !.sweeping = (at + 1) % Len(MaintenanceOrder)]
       /\ UNCHANGED <<now, tiers, ret, hist, hits, misses, warm, reading, writing, sweeping, reporting, config, sys, monitor>>

\* run_cache_maintenance up to the end of the first await of run_maintenance:
\* IndexerCache::new(config.clone()), then the sweep of the first tier of the
\* manager just constructed.
run_cache_maintenance ==
    /\ scratch.made < MaxInstances
    /\ scratch.sweeping = 0
    /\ run_cache_maintenance_sweep(scratch.made + 1, [n \in TierNames |-> EmptyTier], 0)

\* The four awaits of run_maintenance that follow, one at a step.
run_cache_maintenance_await ==
    /\ scratch.sweeping # 0
    /\ run_cache_maintenance_sweep(scratch.made, scratch.swept, scratch.sweeping)

-----------------------------------------------------------------------------
(* SpecInstances: start_cache_system warms its manager through the clone   *)
(* held by the CacheWarmer and runs its loop; slots are read from the      *)
(* manager, and clear_all_caches and run_cache_maintenance are called      *)
(* while the loop runs                                                     *)

NextInstances ==
    \/ start_cache_system_call(TRUE, DefaultSizeMb)
    \/ /\ sys.pc = "warming"
       /\ warm.pc = "idle"
       /\ warm_recent_slots_call(RpcOk(ShortChainSlot))
    \/ \E leaders \in LeaderAnswers : warm_recent_slots_fetch(leaders)
    \/ warm_recent_slots_cached
    \/ warm_recent_slots_return
    \/ start_cache_system_warmed
    \/ start_cache_system_tick
    \/ AdvanceClock
    \/ FewGets /\ sys.looped /\ get_slot_read(ShortChainSlot, FALSE)
    \/ get_record(TRUE)
    \/ sys.looped /\ clear_all_caches
    \/ sys.looped /\ run_cache_maintenance
    \/ run_cache_maintenance_await

SpecInstances == Init /\ [][NextInstances]_vars

-----------------------------------------------------------------------------
(* The monitoring loops of account_watcher.rs: the slot cached at the      *)
(* dashboard and the read-through of the tracked accounts                 *)

\* The iterations of the loop at which the dashboard is shown and the slot
\* cached, and at which the balances are read through the cache: every tenth
\* in both loops, every second in start_monitoring and every fifth in
\* start_wallet_monitoring.
DashboardEvery == 10

AccountBalanceEvery == 2

WalletBalanceEvery == 5

MaxIterations == 20

\* The tracked accounts in the order in which the loop's map yields them.
TrackedOrders == {<<"acctA">>, <<"acctA", "acctB">>, <<"acctB", "acctA">>}

\* The loop is entered with its own manager, the tracked accounts read from
\* the database, and its counters at 0.
monitor_start(balance_every, order) ==
    /\ monitor.pc = "idle"
    /\ \A n \in TierNames : tiers[n] = EmptyTier
    /\ monitor' = [monitor EXCEPT !.pc = "loop", !.balance_every = balance_every,
                                  !.order = order]
    /\ UNCHANGED <<now, tiers, ret, hist, hits, misses, warm, reading, writing, sweeping, reporting, config, sys, scratch>>

\* Where the loop goes on after the dashboard part of an iteration, or
\* without one: to the first tracked account if the balances are read in this
\* iteration, else to the next tick.
ToBalances(m) ==
    IF m.iteration_count % m.balance_every = 0
    THEN [m EXCEPT !.pc = "balances", !.at = 1]
    ELSE [m EXCEPT !.pc = "loop", !.at = 0]

\* Where the loop goes on after an account: to the next one, or to the next
\* tick after the last.
ToNextAccount(m) ==
    IF m.at < Len(m.order)
    THEN [m EXCEPT !.pc = "balances", !.at = @ + 1]
    ELSE [m EXCEPT !.pc = "loop", !.at = 0]

\* iteration_count += 1; interval_timer.tick().await.
monitor_tick ==
    /\ monitor.pc = "loop"
    /\ monitor.iteration_count < MaxIterations
    /\ LET m == [monitor EXCEPT !.iteration_count = @ + 1]
       IN monitor' = IF m.iteration_count % DashboardEvery = 0
                     THEN [m EXCEPT !.pc = "dashboard"]
                     ELSE ToBalances(m)
    /\ UNCHANGED <<now, tiers, ret, hist, hits, misses, warm, reading, writing, sweeping, reporting, config, sys, scratch>>

\* The dashboard's client.get_slot(): if it is Ok cache_slot is called with
\* the slot and the leader "Unknown", of which this is the part up to the end
\* of its insert, where the loop waits in the call; if it is Err nothing is
\* cached and the loop goes on to the statistics.
monitor_get_slot(current_slot, hk) ==
    /\ monitor.pc = "dashboard"
    /\ writing = NotWriting
    /\ IF current_slot.ok
       THEN cache_slot_insert(SlotInfo(current_slot.value, "Unknown", now), hk)
       ELSE /\ monitor' = [monitor EXCEPT !.pc = "stats"]
            /\ UNCHANGED <<now, tiers, ret, hist, hits, misses, warm, reading, writing, sweeping, reporting, config, sys, scratch>>

\* The rest of cache.cache_slot(..).await; its error would only be printed.
monitor_slot_cached ==
    /\ monitor.pc = "dashboard"
    /\ cache_entity_record(TRUE)
    /\ monitor' = [monitor EXCEPT !.pc = "stats"]
    /\ UNCHANGED <<warm, reading, sweeping, reporting, config, sys, scratch>>

\* cache.get_cache_stats().await and the two numbers the dashboard takes from
\* it: cache_stats["accounts"]["entry_count"] and
\* cache_stats["total_memory_usage_mb"], each .as_u64().unwrap_or(0).
monitor_get_cache_stats ==
    /\ monitor.pc = "stats"
    /\ LET cache_stats == get_cache_stats(tiers)
       IN monitor' = ToBalances(
            [monitor EXCEPT
                !.dashboards = @ + 1,
                !.total_cache_entries =
                    as_u64_or_zero(json_index(json_index(cache_stats, "accounts"),
                                              "entry_count")),
                !.cache_memory_mb =
                    as_u64_or_zero(json_index(cache_stats, "total_memory_usage_mb"))])
    /\ UNCHANGED <<now, tiers, ret, hist, hits, misses, warm, reading, writing, sweeping, reporting, config, sys, scratch>>

\* cache.get_account(address).await, for the tracked account the loop is at,
\* up to the end of its tier read.
monitor_get_account(hk) ==
    /\ monitor.pc = "balances"
    /\ get_entity_read("accounts", monitor.order[monitor.at], hk)
    /\ monitor' = [monitor EXCEPT !.pc = "get"]
    /\ UNCHANGED <<warm, writing, sweeping, reporting, config, sys, scratch>>

\* The rest of cache.get_account(address).await and the branch on what it
\* returned: a hit is counted and used; a miss is counted and goes on to the
\* source.
monitor_get_account_returned ==
    /\ monitor.pc = "get"
    /\ get_entity_record(TRUE)
    /\ monitor' = IF reading.result.found
                  THEN ToNextAccount([monitor EXCEPT !.calls = @ + 1,
                                                     !.cache_hits = @ + 1])
                  ELSE [monitor EXCEPT !.calls = @ + 1, !.cache_misses = @ + 1,
                                       !.pc = "fetch"]
    /\ UNCHANGED <<warm, writing, sweeping, reporting, config, sys, scratch>>

\* Mutant: a failed fetch caches an empty account.
monitor_fetch_caching_failure(result, hk) ==
    /\ monitor.pc = "fetch"
    /\ monitor' = [monitor EXCEPT !.pc = "cache",
                                  !.fetches = @ + 1,
                                  !.fetched = IF result.ok THEN @ + 1 ELSE @,
                                  !.cached = @ + 1]
    /\ cache_entity_insert("accounts", monitor.order[monitor.at],
                           IF result.ok
                           THEN Account(monitor.order[monitor.at], result.value.lamports,
                                        result.value.data_len, now)
                           ELSE Account(monitor.order[monitor.at], 0, 0, now),
                           hk)
    /\ UNCHANGED <<warm, reading, sweeping, reporting, config, sys, scratch>>

\* client.get_account(&pubkey) after a miss; if it is Ok cache_account is
\* called with the account, of which this is the part up to the end of its
\* insert.
monitor_fetch(result, hk) ==
    /\ monitor.pc = "fetch"
    /\ LET m == [monitor EXCEPT !.fetches = @ + 1,
                                !.fetched = IF result.ok THEN @ + 1 ELSE @,
                                !.cached = IF result.ok THEN @ + 1 ELSE @]
       IN monitor' = IF result.ok THEN [m EXCEPT !.pc = "cache"] ELSE ToNextAccount(m)
    /\ IF result.ok
       THEN cache_entity_insert("accounts", monitor.order[monitor.at],
                                Account(monitor.order[monitor.at], result.value.lamports,
                                        result.value.data_len, now), hk)
       ELSE UNCHANGED <<now, tiers, ret, hist, hits, misses, writing>>
    /\ UNCHANGED <<warm, reading, sweeping, reporting, config, sys, scratch>>

\* The rest of cache.cache_account(..).await; its error would only be
\* printed.
monitor_cached ==
    /\ monitor.pc = "cache"
    /\ cache_entity_record(TRUE)
    /\ monitor' = ToNextAccount(monitor)
    /\ UNCHANGED <<warm, reading, sweeping, reporting, config, sys, scratch>>

-----------------------------------------------------------------------------
(* SpecMonitor: a monitoring loop of either kind goes through its          *)
(* iterations on its own manager: every tenth it caches the current slot   *)
(* and takes the statistics, and at its balance iterations it reads the    *)
(* tracked accounts through the cache, from a source that may fail, while  *)
(* time passes to the cached accounts' deadlines                           *)

MonitoredSlot == 7

NextMonitor ==
    \/ \E balance_every \in {AccountBalanceEvery, WalletBalanceEvery} :
       \E order \in TrackedOrders :
            monitor_start(balance_every, order)
    \/ monitor_tick
    \/ \E hk \in BOOLEAN :
       \E current_slot \in {RpcErr, RpcOk(MonitoredSlot)} :
            monitor_get_slot(current_slot, hk)
    \/ monitor_slot_cached
    \/ monitor_get_cache_stats
    \/ \E hk \in BOOLEAN : monitor_get_account(hk)
    \/ monitor_get_account_returned
    \/ \E hk \in BOOLEAN :
       \E result \in {RpcErr, RpcOk([lamports |-> 1, data_len |-> TokenAccountLen])} :
            monitor_fetch(result, hk)
    \/ monitor_cached
    \/ \E t \in Deadlines("accounts") :
            t <= time_to_live("accounts") + MaxOvershoot /\ Tick(t - now)

SpecMonitor == Init /\ [][NextMonitor]_vars

-----------------------------------------------------------------------------
(* SpecStats: slots and blocks a few bytes short of a megabyte are cached  *)
(* and the statistics are taken                                            *)

\* A caller of get_cache_stats receives the snapshot.
get_cache_stats_call ==
    /\ ret' = [tier |-> "stats", key |-> "get_cache_stats",
               result |-> SomeValue(get_cache_stats(tiers))]
    /\ UNCHANGED <<now, tiers, hist, hits, misses, warm, reading, writing, sweeping, reporting, config, sys, monitor, scratch>>

NearMegabyteBlockLen == 999995

NextStats ==
    \/ Alone /\ \E slot \in {100, 101} : cache_slot_insert(SlotInfo(slot, "L1", now), FALSE)
    \/ Alone /\ \E slot \in {100, 101} : cache_block_insert(slot, Bytes(NearMegabyteBlockLen, 0), FALSE)
    \/ cache_record(TRUE)
    \/ (sweeping # 0 \/ Alone) /\ run_maintenance
    \/ Alone /\ get_cache_stats_call

SpecStats == Init /\ [][NextStats]_vars

-----------------------------------------------------------------------------
(* SpecConfig: the manager is constructed with the default configuration   *)
(* or with one of smaller and shorter-lived tiers, then used by one caller  *)

SmallConfig ==
    [cache_size |-> 64000000,
     cache_config |->
        [DefaultConfig.cache_config EXCEPT
            !.total_size_mb = 64,
            !.l1_max_entries = 2, !.l1_ttl_seconds = 5, !.l1_idle_seconds = 1,
            !.l2_max_entries = 100, !.l2_ttl_seconds = 60, !.l2_idle_seconds = 10,
            !.l2_max_size_mb = 5,
            !.l3_max_entries = 100, !.l3_ttl_seconds = 60, !.l3_idle_seconds = 10,
            !.l3_max_size_mb = 10,
            !.l4_max_entries = 10, !.l4_ttl_seconds = 600, !.l4_max_size_mb = 40]]

Configs == {DefaultConfig, SmallConfig}

InitConfig == \E cfg \in Configs : new(cfg)

NextConfig ==
    \/ Alone /\ cache_slot_insert(SlotInfo(100, "L1", now), FALSE)
    \/ Alone /\ get_slot_read(100, FALSE)
    \/ Alone /\ cache_block_insert(100, Bytes(SmallBlockLen, 0), FALSE)
    \/ Alone /\ get_block_read(100, FALSE)
    \/ cache_record(TRUE)
    \/ get_record(TRUE)
    \/ (sweeping # 0 \/ Alone) /\ run_maintenance

SpecConfig == InitConfig /\ [][NextConfig]_vars

-----------------------------------------------------------------------------
(* SpecTime: one caller works on one key of one kind while time passes to  *)
(* the entry's deadlines                                                   *)

NextTime ==
    \/ Alone /\ OnlyKind("hot_slots") /\ \E hk \in {FALSE} :
            cache_slot_insert(SlotInfo(100, "L1", now), hk)
    \/ Alone /\ OnlyKind("hot_slots") /\ \E hk \in {FALSE} : get_slot_read(100, hk)
    \/ Alone /\ OnlyKind("transactions") /\ \E hk \in {FALSE} :
            cache_transaction_insert(Transaction(Signature("sigA", SignatureLen), 1, now), hk)
    \/ Alone /\ OnlyKind("transactions") /\ \E hk \in {FALSE} :
            get_transaction_read(Signature("sigA", SignatureLen), hk)
    \/ Alone /\ OnlyKind("accounts") /\ \E hk \in {FALSE} :
            cache_account_insert(Account("acctA", 1, TokenAccountLen, now), hk)
    \/ Alone /\ OnlyKind("accounts") /\ \E hk \in {FALSE} : get_account_read("acctA", hk)
    \/ Alone /\ OnlyKind("blocks") /\ \E hk \in {FALSE} :
            cache_block_insert(100, Bytes(SmallBlockLen, 0), hk)
    \/ Alone /\ OnlyKind("blocks") /\ \E hk \in {FALSE} : get_block_read(100, hk)
    \/ cache_record(TRUE)
    \/ get_record(TRUE)
    \/ (sweeping # 0 \/ Alone) /\ run_maintenance
    \/ Alone /\ invalidate_all
    \/ \E name \in EntityTiers : \E t \in Deadlines(name) :
            t <= time_to_live(name) + MaxOvershoot /\ Tick(t - now)

SpecTime == Init /\ [][NextTime]_vars

-----------------------------------------------------------------------------
(* Spec: one caller of one kind works on two keys with records large       *)
(* enough to fill the weighted tiers                                       *)

BigSignatureLen == 30000000

BigAccountLen == 60000000

BigBlockLen == 300000000

OversizedBlockLen == 600000000

SlotNumbers == {100, 101}

SlotInfos(t) == {SlotInfo(n, l, t) : n \in SlotNumbers, l \in {"L1", "L2"}}

Signatures == {Signature("sigA", BigSignatureLen), Signature("sigB", BigSignatureLen)}

Transactions(t) == {Transaction(sig, 1, t) : sig \in Signatures}

Pubkeys == {"acctA", "acctB"}

Accounts(t) == {Account(p, 1, n, t) : p \in Pubkeys, n \in {TokenAccountLen, BigAccountLen}}

Blobs == {Bytes(BigBlockLen, 0), Bytes(OversizedBlockLen, 0)}

Next ==
    \/ Alone /\ OnlyKind("hot_slots") /\ \E si \in SlotInfos(now), hk \in {FALSE} :
            cache_slot_insert(si, hk)
    \/ Alone /\ OnlyKind("hot_slots") /\ \E n \in SlotNumbers, hk \in {FALSE} :
            get_slot_read(n, hk)
    \/ Alone /\ OnlyKind("transactions") /\ \E tx \in Transactions(now), hk \in {FALSE} :
            cache_transaction_insert(tx, hk)
    \/ Alone /\ OnlyKind("transactions") /\ \E sig \in Signatures, hk \in {FALSE} :
            get_transaction_read(sig, hk)
    \/ Alone /\ OnlyKind("accounts") /\ \E a \in Accounts(now), hk \in {FALSE} :
            cache_account_insert(a, hk)
    \/ Alone /\ OnlyKind("accounts") /\ \E p \in Pubkeys, hk \in {FALSE} :
            get_account_read(p, hk)
    \/ Alone /\ OnlyKind("blocks") /\ \E n \in SlotNumbers, b \in Blobs, hk \in {FALSE} :
            cache_block_insert(n, b, hk)
    \/ Alone /\ OnlyKind("blocks") /\ \E n \in SlotNumbers, hk \in {FALSE} :
            get_block_read(n, hk)
    \/ cache_record(TRUE)
    \/ get_record(TRUE)
    \/ (sweeping # 0 \/ Alone) /\ run_maintenance
    \/ Alone /\ invalidate_all

Spec == Init /\ [][Next]_vars

-----------------------------------------------------------------------------
(* SpecMetrics: callers of one kind read and write one key while the       *)
(* report is taken and the manager is invalidated; the calls overlap,      *)
(* two at a time, and no time passes                                       *)

NextMetrics ==
    \/ CanStart /\ OnlyKind("hot_slots") /\ cache_slot_insert(SlotInfo(100, "L1", now), FALSE)
    \/ FewGets /\ CanStart /\ OnlyKind("hot_slots") /\ get_slot_read(100, FALSE)
    \/ CanStart /\ OnlyKind("transactions") /\
            cache_transaction_insert(Transaction(Signature("sigA", SignatureLen), 1, now), FALSE)
    \/ FewGets /\ CanStart /\ OnlyKind("transactions") /\
            get_transaction_read(Signature("sigA", SignatureLen), FALSE)
    \/ CanStart /\ OnlyKind("accounts") /\
            cache_account_insert(Account("acctA", 1, TokenAccountLen, now), FALSE)
    \/ FewGets /\ CanStart /\ OnlyKind("accounts") /\ get_account_read("acctA", FALSE)
    \/ CanStart /\ OnlyKind("blocks") /\ cache_block_insert(100, Bytes(SmallBlockLen, 0), FALSE)
    \/ FewGets /\ CanStart /\ OnlyKind("blocks") /\ get_block_read(100, FALSE)
    \/ (reporting.at # 0 \/ CanStart) /\ (\E mhk \in BOOLEAN : get_performance_metrics(mhk))
    \/ cache_record(TRUE)
    \/ get_record(TRUE)
    \/ (sweeping # 0 \/ Alone) /\ run_maintenance
    \/ invalidate_all

SpecMetrics == Init /\ [][NextMetrics]_vars

-----------------------------------------------------------------------------
(* SpecGets: callers of two kinds read and write one key each, their       *)
(* calls overlapping two at a time; the report is taken while no other     *)
(* call runs; no invalidation and no time passing                          *)

NextGets ==
    \/ CanStart /\ reporting.at = 0 /\ cache_slot_insert(SlotInfo(100, "L1", now), FALSE)
    \/ FewGets /\ CanStart /\ reporting.at = 0 /\ get_slot_read(100, FALSE)
    \/ CanStart /\ reporting.at = 0 /\ cache_block_insert(100, Bytes(SmallBlockLen, 0), FALSE)
    \/ FewGets /\ CanStart /\ reporting.at = 0 /\ get_block_read(100, FALSE)
    \/ (reporting.at # 0 \/ Alone) /\ get_performance_metrics(TRUE)
    \/ cache_record(TRUE)
    \/ get_record(TRUE)
    \/ (sweeping # 0 \/ (CanStart /\ reporting.at = 0)) /\ run_maintenance

SpecGets == Init /\ [][NextGets]_vars

-----------------------------------------------------------------------------
(* SpecReplace: an account or a transaction is cached and then cached      *)
(* again under the same key with another record                            *)

FirstPut(name, k) == k \notin DOMAIN hist[name]

SecondPut(name, k) == k \in DOMAIN hist[name]

NextReplace ==
    \/ Alone /\ OnlyKind("accounts") /\ \E p \in Pubkeys, hk \in BOOLEAN :
            FirstPut("accounts", p) /\ cache_account_insert(Account(p, 1, TokenAccountLen, now), hk)
    \/ Alone /\ OnlyKind("accounts") /\ \E p \in Pubkeys, hk \in BOOLEAN :
            SecondPut("accounts", p) /\ cache_account_insert(Account(p, 2, BigAccountLen, now), hk)
    \/ Alone /\ OnlyKind("accounts") /\ \E p \in Pubkeys, hk \in BOOLEAN : get_account_read(p, hk)
    \/ Alone /\ OnlyKind("transactions") /\ \E hk \in BOOLEAN :
            /\ FirstPut("transactions", Signature("sigA", SignatureLen))
            /\ cache_transaction_insert(Transaction(Signature("sigA", SignatureLen), 1, now), hk)
    \/ Alone /\ OnlyKind("transactions") /\ \E hk \in BOOLEAN :
            /\ SecondPut("transactions", Signature("sigA", SignatureLen))
            /\ cache_transaction_insert(Transaction(Signature("sigA", SignatureLen), 2, now), hk)
    \/ Alone /\ OnlyKind("transactions") /\ \E hk \in BOOLEAN :
            get_transaction_read(Signature("sigA", SignatureLen), hk)
    \/ cache_record(TRUE)
    \/ get_record(TRUE)
    \/ (sweeping # 0 \/ Alone) /\ run_maintenance

SpecReplace == Init /\ [][NextReplace]_vars

-----------------------------------------------------------------------------
(* SpecWeights: records of ordinary size and records whose size is 2^32    *)
(* are cached, read and counted                                            *)

\* A length of 2^32: hi = 1, lo = 0.
FourGiB == Usize(1, 0)

AccountOfLen(len, t) == [Account("acctA", 1, 0, t) EXCEPT !.data_len = len]

BytesOfLen(len) == [Bytes(0, 0) EXCEPT !.len = len]

NextWeights ==
    \/ Alone /\ OnlyKind("accounts") /\ \E len \in {Usize(0, TokenAccountLen), FourGiB} :
            cache_account_insert(AccountOfLen(len, now), FALSE)
    \/ Alone /\ OnlyKind("accounts") /\ get_account_read("acctA", FALSE)
    \/ Alone /\ OnlyKind("blocks") /\ \E len \in {Usize(0, SmallBlockLen), FourGiB} :
            cache_block_insert(100, BytesOfLen(len), FALSE)
    \/ Alone /\ OnlyKind("blocks") /\ get_block_read(100, FALSE)
    \/ Alone /\ OnlyKind("transactions") /\
            cache_transaction_insert(Transaction(Signature("sigA", SignatureLen), 1, now), FALSE)
    \/ Alone /\ OnlyKind("transactions") /\
            get_transaction_read(Signature("sigA", SignatureLen), FALSE)
    \/ cache_record(TRUE)
    \/ get_record(TRUE)
    \/ (sweeping # 0 \/ Alone) /\ run_maintenance

SpecWeights == Init /\ [][NextWeights]_vars

-----------------------------------------------------------------------------
(* SpecFill: blocks of consecutive slots are cached, one more than the     *)
(* entry count the blocks tier is built with                               *)

BlocksCached == Cardinality(DOMAIN hist["blocks"])

FillBlocks == BlocksInitialCapacity + 1

NextFill ==
    \/ Alone /\ BlocksCached < FillBlocks
            /\ cache_block_insert(BlocksCached + 1, Bytes(SmallBlockLen, 0), FALSE)
    \/ cache_record(TRUE)
    \/ (sweeping # 0 \/ Alone) /\ run_maintenance

SpecFill == Init /\ [][NextFill]_vars

-----------------------------------------------------------------------------
(* SpecFillSlots: slots of consecutive numbers are cached with no read in  *)
(* between, one more than the slot tier's capacity; once the housekeeper   *)
(* has applied them the oldest and the newest are read                     *)

SlotsCached == Cardinality(DOMAIN hist["hot_slots"])

FillSlots == SlotsCapacity + 1

NextFillSlots ==
    \/ Alone /\ SlotsCached < FillSlots
            /\ cache_slot_insert(SlotInfo(SlotsCached + 1, "L1", now), FALSE)
    \/ Alone /\ SlotsCached = FillSlots /\ tiers["hot_slots"].wlog = <<>>
            /\ \E slot \in {1, FillSlots} : get_slot_read(slot, FALSE)
    \/ cache_record(TRUE)
    \/ get_record(TRUE)
    \/ (sweeping # 0 \/ Alone) /\ run_maintenance

SpecFillSlots == Init /\ [][NextFillSlots]_vars

-----------------------------------------------------------------------------
(* SpecAbsent: one caller reads and writes two blocks too large to be held *)
(* together while time passes to the entries' deadlines; the housekeeper   *)
(* may run during a get                                                    *)

NextAbsent ==
    \/ Alone /\ \E slot \in SlotNumbers : cache_block_insert(slot, Bytes(BigBlockLen, 0), FALSE)
    \/ FewGets /\ Alone /\ \E slot \in SlotNumbers, hk \in BOOLEAN : get_block_read(slot, hk)
    \/ cache_record(TRUE)
    \/ get_record(TRUE)
    \/ (sweeping # 0 \/ Alone) /\ run_maintenance
    \/ Alone /\ invalidate_all
    \/ \E t \in Deadlines("blocks") :
            t <= time_to_live("blocks") + MaxOvershoot /\ Tick(t - now)

SpecAbsent == Init /\ [][NextAbsent]_vars

-----------------------------------------------------------------------------
(* SpecRecords: one caller of one kind caches records whose cached_at      *)
(* field it filled from its own clock, which may be ahead                  *)

CallerSkew == 5

MaxClock == 3

CallerClock(t) == {t, t + CallerSkew}

NextRecords ==
    \/ Alone /\ OnlyKind("hot_slots") /\ \E at \in CallerClock(now) :
            cache_slot_insert(SlotInfo(100, "L1", at), FALSE)
    \/ Alone /\ OnlyKind("hot_slots") /\ get_slot_read(100, FALSE)
    \/ Alone /\ OnlyKind("transactions") /\ \E at \in CallerClock(now) :
            cache_transaction_insert(Transaction(Signature("sigA", SignatureLen), 1, at), FALSE)
    \/ Alone /\ OnlyKind("transactions") /\
            get_transaction_read(Signature("sigA", SignatureLen), FALSE)
    \/ Alone /\ OnlyKind("accounts") /\ \E at \in CallerClock(now) :
            cache_account_insert(Account("acctA", 1, TokenAccountLen, at), FALSE)
    \/ Alone /\ OnlyKind("accounts") /\ get_account_read("acctA", FALSE)
    \/ cache_record(TRUE)
    \/ get_record(TRUE)
    \/ (sweeping # 0 \/ Alone) /\ run_maintenance
    \/ now < MaxClock /\ Tick(1)

SpecRecords == Init /\ [][NextRecords]_vars

-----------------------------------------------------------------------------
(* Claims about expiry (SpecTime)                                          *)

\* The time-to-live and idle timeout the claims state for each kind.
StatedTtl(name) ==
    CASE name = "hot_slots" -> 30 [] name = "transactions" -> 300
      [] name = "accounts" -> 600 [] name = "blocks" -> 3600

StatedIdleTiers == {"hot_slots", "transactions", "accounts"}

StatedIdle(name) ==
    CASE name = "hot_slots" -> 10 [] name = "transactions" -> 60
      [] name = "accounts" -> 120

\* The call that has just completed is a get of key k of the tier.
Returned(name, k) == ret.tier = name /\ ret.key = k

\* The last time the entry was put or successfully read.
Touched(h) == IF h.read_at >= h.put_at THEN h.read_at ELSE h.put_at

IdleElapsed(name, h, t) ==
    name \in StatedIdleTiers /\ t >= Touched(h) + StatedIdle(name)

\* C3 as stated: a record cached at T and not evicted for capacity is returned
\* by a get at a time t exactly when t < T + D, whatever was read in between.
C3_ReturnedUntilTtl ==
    \A name \in EntityTiers : \A k \in DOMAIN hist[name] :
        (Returned(name, k) /\ ~Lost(hist[name][k]))
            => (ret.result.found <=> now < hist[name][k].put_at + StatedTtl(name))

\* C3 amended: a get never returns a record at or after T + D; it does
\* return the record before T + D if the entry was neither evicted for
\* capacity nor invalidated and less than the tier's idle timeout has passed
\* since the entry was last put or successfully read (the blocks tier has no
\* idle timeout).
C3_ReturnedUntilTtlWithinIdle ==
    \A name \in EntityTiers : \A k \in DOMAIN hist[name] :
        LET h == hist[name][k]
        IN Returned(name, k) =>
            /\ ret.result.found => now < h.put_at + StatedTtl(name)
            /\ (~ret.result.found /\ ~Lost(h)) =>
                    \/ now >= h.put_at + StatedTtl(name)
                    \/ IdleElapsed(name, h, now)

\* A get returns the record one second before its time-to-live ends, after
\* reads that kept it from going idle.
C3_Witness ==
    \E name \in StatedIdleTiers : \E k \in DOMAIN hist[name] :
        /\ Returned(name, k)
        /\ ret.result.found
        /\ now = hist[name][k].put_at + StatedTtl(name) - 1

\* C4: a get issued once the time-to-live since the put, or the idle timeout
\* since the last put or successful read, has elapsed returns None, whether or
\* not the housekeeper has swept the entry and however often it was read.
C4_LazyExpiryOnRead ==
    [][\A name \in EntityTiers : \A k \in DOMAIN hist[name] :
        (/\ ret'.tier = name
         /\ ret'.key = k
         /\ \/ now >= hist[name][k].put_at + StatedTtl(name)
            \/ IdleElapsed(name, hist[name][k], now))
        => ~ret'.result.found]_vars

\* A get returns None for an entry that is still in the map and that the
\* housekeeper has never applied, whose time-to-live ran out although it was
\* read less than an idle timeout ago.
C4_Witness ==
    \E name \in StatedIdleTiers : \E k \in DOMAIN hist[name] :
        /\ Returned(name, k)
        /\ ~ret.result.found
        /\ k \in DOMAIN tiers[name].map
        /\ ~InSeq(tiers[name].deq, k)
        /\ hits[name] >= 3
        /\ now >= hist[name][k].put_at + StatedTtl(name)
        /\ ~IdleElapsed(name, hist[name][k], now)

\* C5 as stated: an entry read at T and not touched since is returned by a
\* get at a time t exactly when t < T + I.
C5_ReturnedUntilIdle ==
    [][\A name \in StatedIdleTiers : \A k \in DOMAIN hist[name] :
        (/\ ret'.tier = name
         /\ ret'.key = k
         /\ hist[name][k].read_at >= 0
         /\ ~Lost(hist[name][k]))
        => (ret'.result.found <=> now < hist[name][k].read_at + StatedIdle(name))]_vars

\* C5 amended: an entry read at T and not touched since, neither evicted for
\* capacity nor invalidated, is returned by a get at a time t exactly when
\* t < T + I and t is before the end of the time-to-live of its put; every
\* successful get restarts the idle window, none restarts the time-to-live.
C5_ReturnedUntilIdleOrTtl ==
    [][\A name \in StatedIdleTiers : \A k \in DOMAIN hist[name] :
        (/\ ret'.tier = name
         /\ ret'.key = k
         /\ hist[name][k].read_at >= 0
         /\ ~Lost(hist[name][k]))
        => (ret'.result.found <=>
                /\ now < hist[name][k].read_at + StatedIdle(name)
                /\ now < hist[name][k].put_at + StatedTtl(name))]_vars

\* A get returns None exactly one idle timeout after the previous successful
\* read, within the time-to-live.
C5_Witness ==
    \E name \in StatedIdleTiers : \E k \in DOMAIN hist[name] :
        /\ Returned(name, k)
        /\ ~ret.result.found
        /\ hist[name][k].read_at > hist[name][k].put_at
        /\ now = hist[name][k].read_at + StatedIdle(name)
        /\ now < hist[name][k].put_at + StatedTtl(name)
        /\ ~Lost(hist[name][k])

-----------------------------------------------------------------------------
(* Claims about capacity, visibility and invalidation (Spec)               *)

StatedMaxWeight(name) ==
    CASE name = "hot_slots" -> 1000 [] name = "transactions" -> 50000000
      [] name = "accounts" -> 100000000 [] name = "blocks" -> 500000000

RECURSIVE MapWeight(_, _, _)
MapWeight(name, c, keys) ==
    IF keys = {} THEN 0
    ELSE LET k == CHOOSE x \in keys : TRUE
         IN weigher(name, c.map[k].value) + MapWeight(name, c, keys \ {k})

\* C1: the weighted size a tier reports never exceeds the stated maximum
\* weight, and once the housekeeper has applied every write (the state
\* run_maintenance leaves) it is the weight of all the entries the tier holds.
C1_WeightWithinCap ==
    \A name \in EntityTiers :
        LET c == tiers[name]
        IN /\ weighted_size(c) <= StatedMaxWeight(name)
           /\ c.wlog = <<>> =>
                /\ weighted_size(c) = MapWeight(name, c, DOMAIN c.map)
                /\ entry_count(c) = Cardinality(DOMAIN c.map)

\* A weighted tier is settled, holds an entry, and has lost another entry to
\* the capacity.
C1_Witness ==
    \E name \in {"transactions", "accounts", "blocks"} : \E k \in DOMAIN hist[name] :
        /\ tiers[name].wlog = <<>>
        /\ hist[name][k].evicted
        /\ weighted_size(tiers[name]) > 0
        /\ 2 * weighted_size(tiers[name]) > StatedMaxWeight(name)

StatedMaxEntries(name) ==
    CASE name = "hot_slots" -> 1000 [] name = "transactions" -> 10000
      [] name = "accounts" -> 5000 [] name = "blocks" -> 500

\* C2: once the housekeeper has applied every write (the state run_maintenance
\* leaves), each tier's entry_count is at most the stated maximum entry count.
C2_EntryCountWithinCap ==
    \A name \in EntityTiers :
        tiers[name].wlog = <<>> => entry_count(tiers[name]) <= StatedMaxEntries(name)

Expired(name, h, t) == t >= h.put_at + StatedTtl(name) \/ IdleElapsed(name, h, t)

\* C6 as stated: a get of a key that was put, issued before the entry expires
\* and with no invalidate_all in between, returns the record of the most
\* recent put of that key, whatever was done to other keys.
C6_ReadYourWrite ==
    \A name \in EntityTiers : \A k \in DOMAIN hist[name] :
        LET h == hist[name][k]
        IN (Returned(name, k) /\ ~h.invalidated /\ ~Expired(name, h, now))
            => (ret.result.found /\ ret.result.value = h.value)

\* C6 amended: a get of a key that was put returns either the record of the
\* most recent put of that key, never an older one or another key's, or None;
\* and None only if the entry has expired, was invalidated, or was evicted for
\* capacity, which puts of other keys can cause.
C6_ReadYourWriteUnlessEvicted ==
    \A name \in EntityTiers : \A k \in DOMAIN hist[name] :
        LET h == hist[name][k]
        IN Returned(name, k) =>
            /\ ret.result.found => ret.result.value = h.value
            /\ ~ret.result.found => (Lost(h) \/ Expired(name, h, now))

\* A get returns the latest record of a key while another key of the tier
\* has been evicted for capacity.
C6_Witness ==
    \E name \in EntityTiers : \E k \in DOMAIN hist[name] :
        /\ Returned(name, k)
        /\ ret.result.found
        /\ ret.result.value = hist[name][k].value
        /\ \E k2 \in DOMAIN hist[name] : k2 # k /\ hist[name][k2].evicted

\* C7: after invalidate_all a get of a key that was cached before the call
\* returns None, until the key is put again.
C7_InvalidatedReadsNone ==
    \A name \in EntityTiers : \A k \in DOMAIN hist[name] :
        (Returned(name, k) /\ hist[name][k].invalidated) => ~ret.result.found

\* A get returns None for an invalidated entry that is still in the map.
C7_Witness ==
    \E name \in EntityTiers : \E k \in DOMAIN hist[name] :
        /\ Returned(name, k)
        /\ ~ret.result.found
        /\ hist[name][k].invalidated
        /\ ~hist[name][k].evicted
        /\ k \in DOMAIN tiers[name].map

\* C11: a get_block of a key whose last cache_block passed a blob heavier than
\* the block tier's maximum weight returns None: the blob was not stored.
C11_OversizedNotStored ==
    \A k \in DOMAIN hist["blocks"] :
        (/\ Returned("blocks", k)
         /\ weigher("blocks", hist["blocks"][k].value) > StatedMaxWeight("blocks"))
        => ~ret.result.found

\* C12: when the slot tier holds as many entries as its capacity and one more
\* slot is cached with no read in between, then after maintenance the slot
\* cached first is gone and the slot cached last is returned.
C12_OldestEvictedNewestKept ==
    \A slot \in DOMAIN hist["hot_slots"] :
        (SlotsCached = FillSlots /\ Returned("hot_slots", slot))
            => (ret.result.found <=> slot # 1)

\* The records a get of the tier would return at time t, by key.
Retrievable(name, c, t) ==
    [k \in {x \in DOMAIN c.map : Live(name, c, x, t)} |-> c.map[k].value]

\* The step is a get that returned None.
MissStep == ret'.tier \in EntityTiers /\ ~ret'.result.found

\* The step repeats the get that has just returned None.
RepeatedMiss == ~ret.result.found /\ ret'.tier = ret.tier /\ ret'.key = ret.key

\* C13 as stated: a get that returns None leaves the entity tier's contents
\* and entry_count as they were, and the same get repeated returns None again.
C13_MissChangesNothing ==
    [][MissStep =>
        /\ tiers'[ret'.tier].map = tiers[ret'.tier].map
        /\ entry_count(tiers'[ret'.tier]) = entry_count(tiers[ret'.tier])
        /\ RepeatedMiss => ~ret'.result.found]_vars

\* C13 amended: a get that returns None inserts nothing: the key stays
\* absent, no record becomes retrievable or changes, and the same get repeated
\* returns None again; the tier's map and entry_count stay as they were
\* unless the housekeeper ran during the get, which applies the pending
\* writes and sweeps expired entries.
C13_MissInsertsNothing ==
    [][MissStep =>
        LET name == ret'.tier
            before == Retrievable(name, tiers[name], now)
            after == Retrievable(name, tiers'[name], now')
        IN /\ ret'.key \notin DOMAIN after
           /\ \A k \in DOMAIN after : k \in DOMAIN before /\ after[k] = before[k]
           /\ RepeatedMiss => ~ret'.result.found
           /\ \/ tiers'[name].wlog = <<>>
              \/ /\ tiers'[name].map = tiers[name].map
                 /\ entry_count(tiers'[name]) = entry_count(tiers[name])]_vars

\* A get returns None for the second time for a key that was cached and then
\* evicted for capacity.
C13_Witness ==
    \E name \in EntityTiers : \E k \in DOMAIN hist[name] :
        /\ Returned(name, k)
        /\ ~ret.result.found
        /\ hist[name][k].evicted
        /\ ~hist[name][k].invalidated
        /\ misses[name] >= 2

\* C14: the cached_at field of a record returned by get_slot,
\* get_transaction or get_account is the time at which the record was
\* cached, whatever cached_at the caller passed.
C14_CachedAtIsInsertionTime ==
    \A name \in {"hot_slots", "transactions", "accounts"} : \A k \in DOMAIN hist[name] :
        (Returned(name, k) /\ ret.result.found)
            => ret.result.value.cached_at = hist[name][k].put_at

\* C15: on a fresh manager, once a slot was cached and read back by the only
\* get made, and both calls have returned,
\* get_cache_stats()["slots"]["entry_count"] is 1.
C15_StatsCountOneSlot ==
    (/\ Alone
     /\ hits["hot_slots"] = 1
     /\ TotalGets = 1
     /\ Untouched("blocks"))
    => json_index(json_index(get_cache_stats(tiers), "slots"), "entry_count")
            = JsonNumber(1)

-----------------------------------------------------------------------------
(* Claims about cache warming (SpecWarm)                                   *)

Warmed == warm.pc = "done" /\ warm.result = "Ok"

WarmStart == saturating_sub(warm.current, WarmWindow)

\* The slots of the call whose fetch answered with a leader.
WarmSucceeded ==
    {warm.attempted[i] : i \in {j \in 1..Len(warm.attempted) : warm.outcomes[j] = "leader"}}

\* C16: a failed fetch does not stop the batch: whatever the fetches
\* answered, the loop goes on to the next slot, so that when the call is
\* over every slot of the range was attempted; and every slot whose fetch
\* gave a leader is in the slot tier.
C16_FailedFetchSkipsSlot ==
    /\ warm.pc = "loop" =>
            /\ warm.slot = WarmStart + Len(warm.attempted)
            /\ \A slot \in WarmSucceeded : Live("hot_slots", tiers["hot_slots"], slot, now)
    /\ (warm.pc = "done" /\ warm.outcomes # <<>>) =>
            /\ warm.result = "Ok"
            /\ {warm.attempted[i] : i \in 1..Len(warm.attempted)} = WarmStart..warm.current
    /\ Warmed =>
            \A slot \in WarmSucceeded : Live("hot_slots", tiers["hot_slots"], slot, now)

\* The call is over; the fetch of the first slot of the range failed, the
\* last slot of the range was fetched and is in the slot tier.
C16_Witness ==
    /\ Warmed
    /\ warm.outcomes[1] = "err"
    /\ warm.outcomes[Len(warm.outcomes)] = "leader"
    /\ warm.current \in DOMAIN tiers["hot_slots"].map
    /\ warm.current = LongChainSlot

\* C17: when the call is over it has attempted the 100 most recent slots (all
\* of them on a shorter chain), from the current slot downwards, each once.
C17_AttemptsCountSlotsDescending ==
    Warmed =>
        LET count == IF warm.current + 1 < 100 THEN warm.current + 1 ELSE 100
        IN warm.attempted = [i \in 1..count |-> warm.current + 1 - i]

\* C18: the number of warmed slots that the call reports is the number of
\* slots it fetched and inserted.
C18_ReportsSlotsWarmed ==
    Warmed => warm.reported = Cardinality(WarmSucceeded)

\* C19: the call returns an error only when it has inserted no slot, the
\* step that returns the error leaves the tiers as they are, and a call in
\* which a fetch failed does not return an error for it.
C19_ErrorOnlyWithoutProgress ==
    [][/\ warm'.result = "Err" => warm'.attempted = <<>>
       /\ (warm'.result = "Err" /\ warm # warm') => tiers' = tiers
       /\ (\E i \in 1..Len(warm'.outcomes) : warm'.outcomes[i] = "err")
            => warm'.result # "Err"]_vars

\* A second call returns an error while the slot tier holds the slots warmed
\* by the first, in which a fetch had failed.
C19_Witness ==
    /\ warm.result = "Err"
    /\ warm.runs = 2
    /\ tiers["hot_slots"].map # <<>>
    /\ ShortChainSlot \in DOMAIN tiers["hot_slots"].map
    /\ 0 \notin DOMAIN tiers["hot_slots"].map

-----------------------------------------------------------------------------
(* Claims about the statistics (SpecStats)                                 *)

StatsTaken == ret.tier = "stats" /\ ret.key = "get_cache_stats"

\* The bytes a tier's weighted size stands for, at least: the byte-weighed
\* tiers report bytes; a slot record holds its u64 slot number, 8 bytes, and
\* more.
StatedBytesAtLeast(name, c) ==
    IF name = "hot_slots" THEN 8 * entry_count(c) ELSE weighted_size(c)

\* C21: total_memory_usage_mb is the sum of the four entity tiers' weighted
\* sizes in bytes, divided by 1,000,000 with integer division: hence no more
\* than the byte-weighed tiers' sizes plus the slot tier's entry count, and
\* no less than their sizes plus 8 bytes for every slot record counted.
C21_TotalMemoryIsBytesOverMillion ==
    StatsTaken =>
        LET total == json_index(ret.result.value, "total_memory_usage_mb").number
            low == StatedBytesAtLeast("hot_slots", tiers["hot_slots"])
                   + StatedBytesAtLeast("transactions", tiers["transactions"])
                   + StatedBytesAtLeast("accounts", tiers["accounts"])
                   + StatedBytesAtLeast("blocks", tiers["blocks"])
        IN total >= low \div 1000000

-----------------------------------------------------------------------------
(* Claims about maintenance (Spec)                                         *)

\* C23 as stated: whenever run_maintenance runs, every get returns after it
\* what it would have returned before it.
C23_MaintenanceTransparent ==
    \A name \in EntityTiers :
        \A after \in run_pending_tasks(name, tiers[name], now) :
            Retrievable(name, after, now) = Retrievable(name, tiers[name], now)

\* The weight the tier has counted, together with the weights of the puts
\* it has not yet applied, exceeds the limit.
RECURSIVE LoadExceeds(_, _, _)
LoadExceeds(acc, log, limit) ==
    IF acc > limit THEN TRUE
    ELSE IF log = <<>> THEN FALSE
    ELSE IF Head(log).weight > limit - acc THEN TRUE
    ELSE LoadExceeds(acc + Head(log).weight, Tail(log), limit)

\* C23 amended: whenever run_maintenance runs it adds no record and alters
\* none, and it removes a record that a get would have returned only when
\* the weight the tier has counted, together with the weights of the puts
\* made since it last counted, is more than the tier's cap.
C23_MaintenanceRemovesOnlyOverCap ==
    \A name \in EntityTiers :
        \A after \in run_pending_tasks(name, tiers[name], now) :
            LET was == Retrievable(name, tiers[name], now)
                is == Retrievable(name, after, now)
            IN /\ \A k \in DOMAIN is : k \in DOMAIN was /\ is[k] = was[k]
               /\ DOMAIN is # DOMAIN was =>
                    LoadExceeds(weighted_size(tiers[name]), tiers[name].wlog,
                                StatedMaxWeight(name))

\* run_maintenance, run in this state, removes a block that a get returns
\* and keeps another.
C23_Witness ==
    \E after \in run_pending_tasks("blocks", tiers["blocks"], now) :
        LET was == Retrievable("blocks", tiers["blocks"], now)
            is == Retrievable("blocks", after, now)
        IN DOMAIN is # DOMAIN was /\ DOMAIN is # {}

-----------------------------------------------------------------------------
(* Claims about start_cache_system (SpecSystem)                            *)

\* Some entry that has expired is still counted in its tier's entry_count.
ExpiredCounted ==
    \E name \in EntityTiers : \E k \in DOMAIN tiers[name].map :
        is_expired(name, tiers[name].map[k], now) /\ InSeq(tiers[name].deq, k)

\* C24: once the loop of start_cache_system is entered, run_maintenance is
\* invoked again and again, and an expired entry that is still counted is
\* eventually counted no more, with no get; after a warming that returned an
\* error the loop is never entered.
C24_MaintenanceForever ==
    /\ \A b \in {0, 1} : (sys.looped /\ sys.beat = b) ~> (sys.beat = 1 - b)
    /\ (sys.looped /\ ExpiredCounted) ~> ~ExpiredCounted
    /\ [](sys.pc = "failed" => [](sys.pc = "failed" /\ ~sys.looped))
    /\ [](sys.looped => (sys.warm => warm.result = "Ok"))

\* The loop runs after a warming; the slots it had warmed have expired and
\* a round of the loop has removed them.
C24_Witness ==
    /\ sys.pc = "loop"
    /\ sys.warm
    /\ now >= MaintenanceInterval
    /\ hist["hot_slots"] # <<>>
    /\ tiers["hot_slots"].map = <<>>
    /\ TotalGets = 0

-----------------------------------------------------------------------------
(* Claims about the separation of the kinds (SpecGets)                     *)

\* The step is a get_<kind> of the kind.
GetStepOf(name) == hits'[name] + misses'[name] = hits[name] + misses[name] + 1

\* The step is a cache_<kind> of the kind: some key's record is freshly put.
PutStepOf(name) ==
    \E k \in DOMAIN hist'[name] :
        /\ hist'[name][k].put_at = now'
        /\ hist'[name][k].read_at = -1
        /\ \/ k \notin DOMAIN hist[name]
           \/ hist[name][k].value # hist'[name][k].value
           \/ hist[name][k].put_at # hist'[name][k].put_at
           \/ hist[name][k].read_at # hist'[name][k].read_at
           \/ Lost(hist[name][k]) /\ ~Lost(hist'[name][k])

\* C25: a cache_<kind> or get_<kind> step leaves the tiers of the other
\* kinds as they were, and what a get returns is the record last stored
\* under the key through its own kind, also when another kind holds the
\* same key.
C25_KindsDoNotInterfere ==
    [][/\ \A name \in EntityTiers :
            (GetStepOf(name) \/ PutStepOf(name)) =>
                \A other \in EntityTiers \ {name} : tiers'[other] = tiers[other]
       /\ (ret'.tier \in EntityTiers /\ ret'.result.found) =>
            /\ ret'.key \in DOMAIN hist'[ret'.tier]
            /\ ret'.result.value = hist'[ret'.tier][ret'.key].value]_vars

\* get_slot(100) has returned the slot's record while the blocks tier holds a
\* block under the same key 100, which get_block has returned.
C25_Witness ==
    /\ Returned("hot_slots", 100)
    /\ ret.result.found
    /\ ret.result.value = SlotInfo(100, "L1", 0)
    /\ Live("blocks", tiers["blocks"], 100, now)
    /\ hits["blocks"] >= 1

-----------------------------------------------------------------------------
(* Claims about replacement (SpecReplace)                                  *)

\* C26: a put for a key that is present replaces the entry wholesale: the
\* tier holds, and a following get returns, the record of the last put only;
\* the key is counted at most once; and once the housekeeper has applied
\* every write (the state run_maintenance leaves) a key the tier holds is
\* counted once with the weight of its last record, so that weighted_size
\* is the sum of the last records' weights.
C26_PutReplacesWholesale ==
    \A name \in {"transactions", "accounts"} :
        LET c == tiers[name]
        IN /\ \A k \in DOMAIN hist[name] :
                LET v == hist[name][k].value
                IN /\ k \in DOMAIN c.map => c.map[k].value = v
                   /\ Cardinality({i \in 1..Len(c.deq) : c.deq[i] = k}) <= 1
                   /\ (Returned(name, k) /\ ret.result.found) => ret.result.value = v
                   /\ (c.wlog = <<>> /\ k \in DOMAIN c.map) =>
                        /\ InSeq(c.deq, k)
                        /\ c.map[k].counted = weigher(name, v)
           /\ c.wlog = <<>> =>
                /\ entry_count(c) = Cardinality(DOMAIN c.map)
                /\ weighted_size(c) = MapWeight(name, c, DOMAIN c.map)

\* The account was cached, cached again with a larger record, and
\* run_maintenance ran; a get has returned the second record, and the tier
\* counts one entry of the second record's weight.
C26_Witness ==
    /\ Returned("accounts", "acctA")
    /\ ret.result.found
    /\ ret.result.value.lamports = 2
    /\ tiers["accounts"].wlog = <<>>
    /\ entry_count(tiers["accounts"]) = 1
    /\ weighted_size(tiers["accounts"]) = BigAccountLen + AccountOverhead

-----------------------------------------------------------------------------
(* Claims about the weights (SpecWeights)                                  *)

\* The full logical size of a record, as a usize.
StatedSize(name, v) ==
    CASE name = "blocks"       -> v.len
      [] name = "accounts"     -> usize_add(v.data_len, 500)
      [] name = "transactions" -> usize_add(v.signature.len, 200)

\* C27: the weight charged for every record cached in a byte-weighed tier is
\* its full logical size: a block's byte length, an account's data_len + 500,
\* a transaction's signature length + 200, with nothing lost above 2^32.
C27_WeightIsFullSize ==
    \A name \in {"transactions", "accounts", "blocks"} :
        \A k \in DOMAIN hist[name] :
            LET v == hist[name][k].value
            IN StatedSize(name, v) = Usize(0, weigher(name, v))

-----------------------------------------------------------------------------
(* Claims about the monitoring loops (SpecMonitor)                         *)

\* The step is the return of the loop's get_account.
MonitorGetReturned == monitor.pc = "get" /\ monitor'.pc # "get"

\* The gets of the loop whose tier read is made and that have not returned.
MonitorReading(m, r, found) ==
    IF m.pc = "get" /\ r.result.found = found THEN 1 ELSE 0

\* C29: in a monitoring loop every get_account that misses is followed by
\* one fetch from the source and a hit by none; the account tier is written
\* only by a fetch that succeeds, and a failed fetch leaves the tiers as
\* they were; the loop's hit and miss counts sum to its get_account calls
\* and agree with what the gets returned.
C29_ReadThroughOnMiss ==
    [][/\ monitor'.cache_hits + monitor'.cache_misses = monitor'.calls
       /\ monitor'.cache_hits + MonitorReading(monitor', reading', TRUE)
            = hits'["accounts"]
       /\ monitor'.cache_misses + MonitorReading(monitor', reading', FALSE)
            = misses'["accounts"]
       /\ monitor'.fetches + (IF monitor'.pc = "fetch" THEN 1 ELSE 0)
            = monitor'.cache_misses
       /\ monitor'.cached = monitor'.fetched
       /\ GetStepOf("accounts") => (monitor.pc = "balances" /\ monitor'.pc = "get")
       /\ MonitorGetReturned =>
            /\ monitor'.calls = monitor.calls + 1
            /\ monitor'.fetches = monitor.fetches
            /\ (monitor'.pc = "fetch") = ~reading.result.found
            /\ (monitor'.pc \in {"balances", "loop"})
                    = (monitor'.cache_hits = monitor.cache_hits + 1)
            /\ tiers'["accounts"] = tiers["accounts"]
       /\ monitor'.fetches = monitor.fetches + 1 =>
            /\ monitor.pc = "fetch"
            /\ monitor'.fetched = monitor.fetched => tiers' = tiers
            /\ monitor'.fetched # monitor.fetched => PutStepOf("accounts")
       /\ PutStepOf("accounts") => monitor'.fetched = monitor.fetched + 1]_vars

\* The loop has missed an account twice, the first fetch having failed, has
\* cached it after the second fetch and has then read it from the cache.
C29_Witness ==
    /\ monitor.pc = "loop"
    /\ monitor.cache_misses = 2
    /\ monitor.fetches = 2
    /\ monitor.fetched = 1
    /\ monitor.cache_hits >= 1
    /\ hits["accounts"] = monitor.cache_hits
    /\ Live("accounts", tiers["accounts"], "acctA", now)
    /\ "acctB" \notin DOMAIN hist["accounts"]

-----------------------------------------------------------------------------
(* Claims about the configuration (SpecConfig)                             *)

\* The per-tier values of the configuration the manager was given.
Configured(name) ==
    LET c == config.cache_config
    IN CASE name = "hot_slots" ->
              [max_entries |-> c.l1_max_entries, max_weight |-> c.l1_max_entries,
               ttl |-> c.l1_ttl_seconds, has_idle |-> TRUE, idle |-> c.l1_idle_seconds]
         [] name = "transactions" ->
              [max_entries |-> c.l2_max_entries, max_weight |-> c.l2_max_size_mb * 1000000,
               ttl |-> c.l2_ttl_seconds, has_idle |-> TRUE, idle |-> c.l2_idle_seconds]
         [] name = "accounts" ->
              [max_entries |-> c.l3_max_entries, max_weight |-> c.l3_max_size_mb * 1000000,
               ttl |-> c.l3_ttl_seconds, has_idle |-> TRUE, idle |-> c.l3_idle_seconds]
         [] name = "blocks" ->
              [max_entries |-> c.l4_max_entries, max_weight |-> c.l4_max_size_mb * 1000000,
               ttl |-> c.l4_ttl_seconds, has_idle |-> FALSE, idle |-> 0]

\* C22: every entity tier of the manager is built with the maximum weight
\* (for the slot tier, which has no weigher, the maximum entry count), the
\* time-to-live and the idle timeout of the configuration given to new.
C22_TiersBuiltFromConfig ==
    \A name \in EntityTiers :
        /\ max_capacity(name) = Configured(name).max_weight
        /\ time_to_live(name) = Configured(name).ttl
        /\ has_time_to_idle(name) = Configured(name).has_idle
        /\ has_time_to_idle(name) => time_to_idle(name) = Configured(name).idle

-----------------------------------------------------------------------------
(* Claims about the hit and miss accounting (SpecMetrics)                  *)

Reported == ret.tier = "performance" /\ ret.key = "cache_hit_ratio"

TotalHits == hits["hot_slots"] + hits["transactions"] + hits["accounts"] + hits["blocks"]

\* C8: after N > 0 gets of which H returned a record, the cache_hit_ratio
\* that get_performance_metrics reports equals H / N (num * N = H * den).
C8_HitRatioIsHitsOverGets ==
    (Reported /\ TotalGets > 0) =>
        ret.result.value.num * TotalGets = TotalHits * ret.result.value.den

\* The step is the second await of a get_<kind> of the kind whose tier read
\* had the outcome: the call writes its sample and returns.
RecordStepOf(name, found) ==
    /\ reading.tier = name
    /\ reading.result.found = found
    /\ reading'.tier = NoReturn.tier

\* C9: no hit or miss counter of the metrics tier decreases in any step, and
\* each get, when it records its outcome, raises the counter of that outcome
\* by exactly one.
C9_CountersMonotoneAndExact ==
    [][\A name \in EntityTiers :
        LET hit_before  == get_metric_value(tiers["metrics"], HitMetric(name), now)
            hit_after   == get_metric_value(tiers'["metrics"], HitMetric(name), now')
            miss_before == get_metric_value(tiers["metrics"], MissMetric(name), now)
            miss_after  == get_metric_value(tiers'["metrics"], MissMetric(name), now')
        IN /\ hit_after >= hit_before
           /\ miss_after >= miss_before
           /\ RecordStepOf(name, TRUE) => hit_after = hit_before + 1
           /\ RecordStepOf(name, FALSE) => miss_after = miss_before + 1]_vars

\* C10: the cache_hit_ratio that get_performance_metrics reports is a
\* quotient with a positive denominator lying in [0, 1], and it is 0 when no
\* get was made.
C10_HitRatioInUnitInterval ==
    Reported =>
        /\ ret.result.value.den > 0
        /\ 0 <= ret.result.value.num
        /\ ret.result.value.num <= ret.result.value.den
        /\ TotalGets = 0 => ret.result.value.num = 0

\* The report is taken after records were cached and before any get.
C10_Witness ==
    /\ Reported
    /\ TotalGets = 0
    /\ \E name \in EntityTiers : hist[name] # <<>>
    /\ ret.result.value.num = 0

\* C20: whenever a get_<kind> has read its tier and another caller can run,
\* the sample of the read's outcome can be read from the metrics tier: no
\* caller sees a get's tier read without its counter update.
C20_CounterUpdatedWithRead ==
    (reading.tier \in EntityTiers /\ CanStart) =>
        tier_get_result("metrics", tiers["metrics"],
                        IF reading.result.found THEN HitMetric(reading.tier)
                        ELSE MissMetric(reading.tier),
                        now).found

\* The step is an invalidate_all that finds an entity record to invalidate.
InvalidateStep ==
    /\ now' = now
    /\ ret'.tier = NoReturn.tier
    /\ hist' = [n \in EntityTiers |-> MarkInvalidated(hist[n])]
    /\ \A n \in EntityTiers : tiers'[n] = tier_invalidate_all(tiers[n])
    /\ \E n \in EntityTiers : tiers'[n] # tiers[n]

\* The step begins a get_<kind> or cache_<kind> call: its tier read or its
\* insert.
CallStart ==
    \/ reading.tier = NoReturn.tier /\ reading'.tier # NoReturn.tier
    \/ writing = NotWriting /\ writing' # NotWriting

\* The step ends a get_<kind> or cache_<kind> call: the write of its sample.
SampleWrite ==
    \/ reading.tier # NoReturn.tier /\ reading'.tier = NoReturn.tier
    \/ writing # NotWriting /\ writing' = NotWriting

\* invalidate_all has completed and no get_<kind> or cache_<kind> call was
\* made since: every record ever cached was invalidated after it was put,
\* every sample in the metrics tier's map is an invalidated one, and a get
\* that has not returned yet had found a record, which was invalidated after
\* the get read it.
NoCallSinceInvalidation ==
    /\ \E name \in EntityTiers : hist[name] # <<>>
    /\ \A name \in EntityTiers : \A k \in DOMAIN hist[name] : hist[name][k].invalidated
    /\ \A key \in DOMAIN tiers["metrics"].map : tiers["metrics"].map[key].stale
    /\ reading.tier # NoReturn.tier => reading.result.found

\* C28 as stated: once invalidate_all has completed, until the next
\* get_<kind> or cache_<kind> call is made, no hit, miss or stored sample can
\* be read from the metrics tier and every report that
\* get_performance_metrics returns has cache_hit_ratio 0.0.
C28_AbsentUntilNextCall ==
    [][(NoCallSinceInvalidation /\ ~CallStart)
        => /\ MetricsAbsent(tiers'["metrics"], now')
           /\ ret'.tier = "performance" => ret'.result.value.num = 0]_vars

\* C28: invalidate_all empties the metrics tier too: when it completes no
\* hit, miss or stored sample can be read; this stays so through every step
\* but the write of its sample by a get_<kind> or cache_<kind> call, be the
\* call made after invalidate_all or between its two awaits when
\* invalidate_all ran; and a get_performance_metrics that made every one of
\* its reads while no sample could be read reports cache_hit_ratio 0.0.
C28_InvalidateAllEmptiesMetrics ==
    [][/\ InvalidateStep => MetricsAbsent(tiers'["metrics"], now')
       /\ (MetricsAbsent(tiers["metrics"], now) /\ ~SampleWrite)
            => MetricsAbsent(tiers'["metrics"], now')
       /\ (/\ ret'.tier = "performance"
           /\ reporting.absent
           /\ MetricsAbsent(tiers["metrics"], now))
            => ret'.result.value.num = 0]_vars

\* A report taken after gets that hit and an invalidate_all that followed
\* them: the hit ratio is 0.0 and the samples are still in the metrics tier's
\* map, invalidated.
C28_Witness ==
    /\ Reported
    /\ ret.result.value.num = 0
    /\ TotalHits > 0
    /\ MetricsAbsent(tiers["metrics"], now)
    /\ \E name \in EntityTiers :
            /\ HitMetric(name) \in DOMAIN tiers["metrics"].map
            /\ tiers["metrics"].map[HitMetric(name)].stale
            /\ \E k \in DOMAIN hist[name] : hist[name][k].invalidated

-----------------------------------------------------------------------------
(* Claims about separate managers and clones (SpecInstances)               *)

\* The warming has just cached a slot through the CacheWarmer's clone.
WarmedSlotStep ==
    /\ Len(warm'.outcomes) = Len(warm.outcomes) + 1
    /\ warm'.outcomes[Len(warm'.outcomes)] = "leader"

\* C30: clear_all_caches and run_cache_maintenance act on a manager of their
\* own, constructed empty, and leave the entries, the metrics and the
\* counters of the running manager as they were; what the CacheWarmer caches
\* through its clone is at once readable from the manager it was cloned from.
C30_HelpersActOnFreshInstance ==
    [][/\ scratch' # scratch =>
            /\ scratch'.made = IF scratch'.op = "maintenance" /\ scratch.sweeping # 0
                               THEN scratch.made ELSE scratch.made + 1
            /\ tiers' = tiers
            /\ hist' = hist
            /\ hits' = hits /\ misses' = misses
            /\ sys' = sys /\ warm' = warm /\ monitor' = monitor
            /\ \A n \in TierNames :
                    /\ scratch'.cleared[n].map = <<>>
                    /\ entry_count(scratch'.cleared[n]) = 0
                    /\ scratch'.swept[n].map = <<>>
                    /\ entry_count(scratch'.swept[n]) = 0
       /\ WarmedSlotStep =>
            /\ warm.slot \in DOMAIN Retrievable("hot_slots", tiers'["hot_slots"], now')
            /\ Retrievable("hot_slots", tiers'["hot_slots"], now')[warm.slot].slot = warm.slot]_vars

\* Both functions were called while the loop of start_cache_system ran,
\* clear_all_caches between two awaits of run_cache_maintenance; a slot the
\* warming cached through the clone was read from the manager and is still
\* readable from it, and so are the manager's metrics.
C30_Witness ==
    /\ scratch.made = MaxInstances
    /\ scratch.sweeping \in 1..4
    /\ ShortChainSlot \in DOMAIN Retrievable("hot_slots", tiers["hot_slots"], now)
    /\ scratch.op = "clear"
    /\ sys.looped
    /\ warm.result = "Ok"
    /\ Returned("hot_slots", ShortChainSlot)
    /\ ret.result.found
    /\ ~MetricsAbsent(tiers["metrics"], now)

====
